---- MODULE Spec2Model ----
(***************************************************************************)
(* Jira MCP installer: the batch installer (scripts/tui/src/               *)
(* batch-installer.ts), the scope validator (validation.ts), the client    *)
(* registry (mcp-registry.ts), the path resolver (utils/path-resolver.ts)  *)
(* and the registry config fetcher (config-fetcher.ts).                    *)
(*                                                                         *)
(* The filesystem is a map from resolved paths to file contents; a config  *)
(* file's bytes are either unparseable or a JSON value with a layout       *)
(* (compact, as found, or pretty, as JSON.stringify(x, null, 2) writes     *)
(* it).  Every JSON value is a record tagged by t.                         *)
(***************************************************************************)
EXTENDS Integers, Sequences, FiniteSets, TLC

VARIABLES
    now,          \* Date.now() of the installer process, in milliseconds
    form,         \* the CredentialsForm the session installs with
    fs,           \* target config files: resolved path -> file content
    backups,      \* the <path>.backup.<ms> files: <<path, ms>> -> file content
    dirs,         \* directories that exist
    batch,        \* the batchInstall call: its position and the length of its options
    settled,      \* Promise.allSettled outcomes so far, in input order
    batchResults, \* what batchInstall returned (Null until it returns)
    clock,        \* the fetcher's Date.now() in ms, and how often it was seen to advance
    memoryCache,  \* config-fetcher.ts module-level memoryCache
    fileCache,    \* the on-disk cache file ~/.cache/jira-mcp/mcp-conf.json
    heap,         \* catalog objects allocated so far: reference -> catalog
    calls,        \* the fetchMcpConfig calls in flight, in the order they were made
    started,      \* how many fetchMcpConfig calls have been made
    promise,      \* the fetchMcpConfig promise that was created or settled last
    stale,        \* how many of the first calls in flight the last clearCache has overtaken
                  \* (-1 where this is not followed)
    request,      \* the arguments of a validateToolScope call (Null when there is none)
    verdict,      \* what that call returned (Null until it returns)
    detectorCache, \* ToolDetector.cache: client name -> DetectionResult
    passes,       \* the detectAll calls in flight, each with its detectTool tasks
    found,        \* what the detectAll that returned last has returned (Null before)
    onPath,       \* the commands `which` finds on the executable search path
    changes,      \* how many times the detector's environment has changed
    setup,        \* the setup command: its arguments, parsed options and result
    tui,          \* the installer's terminal UI: the state of App and what a key press started
    http          \* the JiraClient.request call: its position, the response and what it settled with

installVars == <<now, form, fs, backups, dirs, batch, settled, batchResults>>
fetchVars == <<clock, memoryCache, fileCache, heap, calls, started, promise, stale>>
validatorVars == <<request, verdict>>
detectVars == <<detectorCache, passes, found, onPath, changes>>
setupVars == <<setup>>
tuiVars == <<tui>>
clientVars == <<http>>
vars == <<now, form, fs, backups, dirs, batch, settled, batchResults,
          clock, memoryCache, fileCache, heap, calls, started, promise, stale,
          request, verdict, detectorCache, passes, found, onPath, changes, setup, tui, http>>

Null == [t |-> "null"]

\* The empty Map of the detector's cache.
NoResults == [k \in {} |-> Null]

(***************************************************************************)
(* Bounds of the model.                                                    *)
(***************************************************************************)
MaxTime == 1
MaxBatch == 2
MaxCalls == 2
MaxTicks == 2

(***************************************************************************)
(* JSON values, as JSON.parse builds them and JSON.stringify prints them.  *)
(***************************************************************************)
Str(s) == [t |-> "str", v |-> s]
Obj(m) == [t |-> "obj", m |-> m]
\* A JS array; props are the non-index properties set on it in memory.
Arr(items) == [t |-> "arr", items |-> items, props |-> <<>>]

Has(o, k) == k \in DOMAIN o.m
Put(m, k, v) == [x \in (DOMAIN m) \cup {k} |-> IF x = k THEN v ELSE m[x]]

\* JS truthiness of a parsed JSON value ("" is falsy, null is falsy).
Truthy(v) ==
    CASE v.t = "null" -> FALSE
      [] v.t = "str" -> v.v # ""
      [] OTHER -> TRUE

\* JSON.parse(JSON.stringify(v)): an array prints its elements only, so the
\* properties set on it in memory are not in the text.
RECURSIVE Stringify(_)
Stringify(v) ==
    CASE v.t = "arr" -> Arr([i \in DOMAIN v.items |-> Stringify(v.items[i])])
      [] v.t = "obj" -> Obj([k \in DOMAIN v.m |-> Stringify(v.m[k])])
      [] OTHER -> v

(***************************************************************************)
(* File contents.                                                          *)
(***************************************************************************)
Absent == [kind |-> "absent"]
Garbage == [kind |-> "garbage"]
Text(fmt, json) == [kind |-> "file", fmt |-> fmt, json |-> json]

PACKAGE_NAME == "@khanglvm/jira-mcp"

\* The credentials a session installs with (tests/fixtures/mock-tools.ts).
CredentialForms ==
    { [baseUrl |-> "https://jira.example.com", username |-> "testuser", password |-> "testpass"] }

createClaudeConfig(creds) ==
    Obj([command |-> Str("npx"),
         args |-> Arr(<<Str("-y"), Str(PACKAGE_NAME)>>),
         env |-> Obj([JIRA_BASE_URL |-> Str(creds.baseUrl),
                      JIRA_USERNAME |-> Str(creds.username),
                      JIRA_PASSWORD |-> Str(creds.password)])])

createOpenCodeConfig(creds) ==
    Obj([type |-> Str("local"),
         command |-> Arr(<<Str("npx"), Str("-y"), Str(PACKAGE_NAME)>>),
         environment |-> Obj([JIRA_BASE_URL |-> Str(creds.baseUrl),
                              JIRA_USERNAME |-> Str(creds.username),
                              JIRA_PASSWORD |-> Str(creds.password)])])

(***************************************************************************)
(* Path resolver.                                                          *)
(***************************************************************************)
process_platform == "linux"

mapPlatform(platform) ==
    IF platform = "win32" THEN "windows"
    ELSE IF platform = "darwin" THEN "macos" ELSE "linux"

HomeFile == "/home/u/a.json"
WorkFile == "/w/b.json"
Paths == {HomeFile, WorkFile}

\* resolvePlatformPath on a non-Windows host: ~ and $HOME become the home
\* directory, any other $NAME becomes process.env[NAME] || '' (UNSET is not set).
resolvePlatformPath(pathStr) ==
    CASE pathStr = "~/a.json" -> HomeFile
      [] pathStr = "$HOME/a.json" -> HomeFile
      [] pathStr = "$UNSET" -> ""
      [] OTHER -> pathStr

\* path.dirname and path.basename of the resolved paths.
Dirname(p) ==
    CASE p = HomeFile -> "/home/u"
      [] p = WorkFile -> "/w"
      [] OTHER -> "."

Basename(p) ==
    CASE p = HomeFile -> "a.json"
      [] p = WorkFile -> "b.json"
      [] OTHER -> p

(***************************************************************************)
(* Client registry: the index over the fetched catalog.  A descriptor's    *)
(* configLocations maps a platform key to a map from scope key to a path   *)
(* template; a key that is not set is outside the map's domain.            *)
(***************************************************************************)
Descriptor(name, vendor, locations, wrapperKey, scopes) ==
    [name |-> name, vendor |-> vendor, configLocations |-> locations,
     configFormat |-> [wrapperKey |-> wrapperKey], scopes |-> scopes]

ClaudeCodeConfig ==
    Descriptor("claude-code", "Anthropic",
               [linux |-> [user |-> "~/a.json", project |-> "/w/b.json"],
                macos |-> [user |-> "~/a.json", project |-> "/w/b.json"]],
               "mcpServers", {"user", "project"})

ClaudeDesktopConfig ==
    Descriptor("claude-desktop", "Anthropic",
               [linux |-> [user |-> "$HOME/a.json"]],
               "mcpServers", {"user"})

OpenCodeConfig ==
    Descriptor("opencode", "",
               [linux |-> [global |-> "$HOME/a.json", project |-> "/w/b.json"]],
               "mcp", {"global", "project"})

AmpConfig ==
    Descriptor("amp", "",
               [linux |-> [local |-> "/w/b.json"]],
               "mcp", {"local"})

ProjectOnlyConfig ==
    Descriptor("project-only", "",
               [linux |-> [user |-> "", global |-> "~/a.json", project |-> "/w/b.json"]],
               "servers", {"project"})

VsCodeConfig ==
    Descriptor("vscode", "Microsoft",
               [linux |-> [workspace |-> "/w/b.json", local |-> "$UNSET"]],
               "servers", {"workspace"})

\* Known to no registry; its descriptor lists no platform at all.
InvalidToolConfig ==
    Descriptor("invalid-tool", "", <<>>, "mcpServers", {"user", "project"})

\* McpRegistry constructor: clients = new Map(Object.entries(config.clients)).
McpRegistry ==
    [c \in {"claude-code", "claude-desktop", "opencode", "amp", "project-only", "vscode"} |->
        CASE c = "claude-code" -> ClaudeCodeConfig
          [] c = "claude-desktop" -> ClaudeDesktopConfig
          [] c = "opencode" -> OpenCodeConfig
          [] c = "amp" -> AmpConfig
          [] c = "project-only" -> ProjectOnlyConfig
          [] c = "vscode" -> VsCodeConfig]

getClient(registry, name) ==
    IF name \in DOMAIN registry THEN registry[name] ELSE Null

getScopesForClient(registry, name) ==
    IF getClient(registry, name) = Null THEN {} ELSE getClient(registry, name).scopes

(***************************************************************************)
(* Detection results handed to the installer.  hasConfig is FALSE for an   *)
(* object that carries no config at all (a legacy DetectedTool).           *)
(***************************************************************************)
DetectionResult(config) ==
    [id |-> config.name,
     displayName |-> IF config.vendor # "" THEN <<config.vendor, config.name>> ELSE <<config.name>>,
     hasConfig |-> TRUE,
     config |-> config]

LegacyTool ==
    [id |-> "claude-code", displayName |-> <<"Claude Code (CLI)">>,
     hasConfig |-> FALSE, config |-> Null]

ToolNames ==
    {"claude-code", "claude-desktop", "opencode", "amp", "project-only", "vscode",
     "invalid-tool", "legacy"}

ToolOf(n) ==
    CASE n = "invalid-tool" -> DetectionResult(InvalidToolConfig)
      [] n = "legacy" -> LegacyTool
      [] OTHER -> DetectionResult(McpRegistry[n])

RequestedScopes == {"user", "project"}

(***************************************************************************)
(* Scope validator.                                                        *)
(***************************************************************************)
\* A fallback that looks for 'user' only and not for 'global'.
getFallbackScope_UserOnly(tool, requestedScope, registry) ==
    LET supported == getScopesForClient(registry, tool.id)
    IN  IF requestedScope = "project" /\ "user" \in supported
        THEN Str("user")
        ELSE Null

getFallbackScope(tool, requestedScope, registry) ==
    LET supported == getScopesForClient(registry, tool.id)
    IN  IF requestedScope = "project" /\ ("user" \in supported \/ "global" \in supported)
        THEN Str("user")
        ELSE Null

\* A validator for which a 'user' request is met by 'user' only.
validateToolScope_NoGlobal(tool, requestedScope, registry) ==
    LET supportedScopes == getScopesForClient(registry, tool.id)
        normalizedRequested == IF requestedScope = "user" THEN {"user"} ELSE {"project"}
        isCompatible == \E s \in normalizedRequested : s \in supportedScopes
        fallback == IF isCompatible THEN Null ELSE getFallbackScope(tool, requestedScope, registry)
        warning == IF isCompatible THEN Null
                   ELSE [t |-> "msg",
                         tool |-> tool.displayName,
                         text |-> "project scope not supported, will use",
                         scope |-> IF fallback # Null THEN fallback.v ELSE "global"]
    IN  [toolId |-> tool.id,
         toolName |-> tool.displayName,
         requestedScope |-> requestedScope,
         supportedScopes |-> supportedScopes,
         isCompatible |-> isCompatible,
         fallbackScope |-> fallback,
         warningMessage |-> warning]

\* A validator that warns about 'project' requests only.
validateToolScope_QuietUser(tool, requestedScope, registry) ==
    LET supportedScopes == getScopesForClient(registry, tool.id)
        normalizedRequested == IF requestedScope = "user" THEN {"user", "global"} ELSE {"project"}
        isCompatible == \E s \in normalizedRequested : s \in supportedScopes
        fallback == IF isCompatible THEN Null ELSE getFallbackScope(tool, requestedScope, registry)
        warning == IF isCompatible \/ requestedScope = "user" THEN Null
                   ELSE [t |-> "msg",
                         tool |-> tool.displayName,
                         text |-> "project scope not supported, will use",
                         scope |-> IF fallback # Null THEN fallback.v ELSE "global"]
    IN  [toolId |-> tool.id,
         toolName |-> tool.displayName,
         requestedScope |-> requestedScope,
         supportedScopes |-> supportedScopes,
         isCompatible |-> isCompatible,
         fallbackScope |-> fallback,
         warningMessage |-> warning]

\* validateToolScope, lines 38-63.
validateToolScope(tool, requestedScope, registry) ==
    LET supportedScopes == getScopesForClient(registry, tool.id)
        normalizedRequested == IF requestedScope = "user" THEN {"user", "global"} ELSE {"project"}
        isCompatible == \E s \in normalizedRequested : s \in supportedScopes
        fallback == IF isCompatible THEN Null ELSE getFallbackScope(tool, requestedScope, registry)
        warning == IF isCompatible THEN Null
                   ELSE [t |-> "msg",
                         tool |-> tool.displayName,
                         text |-> "project scope not supported, will use",
                         scope |-> IF fallback # Null THEN fallback.v ELSE "global"]
    IN  [toolId |-> tool.id,
         toolName |-> tool.displayName,
         requestedScope |-> requestedScope,
         supportedScopes |-> supportedScopes,
         isCompatible |-> isCompatible,
         fallbackScope |-> fallback,
         warningMessage |-> warning]

(***************************************************************************)
(* Batch installer: path selection.                                        *)
(***************************************************************************)
\* A path selection that looks at the first key only.
PathOr_FirstOnly(locations, first, second) ==
    IF first \in DOMAIN locations /\ locations[first] # "" THEN Str(locations[first])
    ELSE Null

\* a || b on path templates: a missing key and '' are both falsy.
PathOr(locations, first, second) ==
    IF first \in DOMAIN locations /\ locations[first] # "" THEN Str(locations[first])
    ELSE IF second \in DOMAIN locations /\ locations[second] # "" THEN Str(locations[second])
    ELSE Null

getConfigPathForScope(tool, scope) ==
    LET platformKey == mapPlatform(process_platform)
    IN  IF platformKey \notin DOMAIN tool.config.configLocations
        THEN Null
        ELSE LET platformLocations == tool.config.configLocations[platformKey]
             IN  IF scope = "user"
                 THEN PathOr(platformLocations, "user", "global")
                 ELSE PathOr(platformLocations, "project", "local")

(***************************************************************************)
(* Batch installer: the filesystem steps of one install.  A fault is the   *)
(* one filesystem call of the install that the operating system refuses.   *)
(***************************************************************************)
Faults == {"none", "copy", "read", "mkdir", "open", "truncated"}

Exists(fsv, p) == p \in DOMAIN fsv /\ fsv[p] # Absent

Threw(message) == [threw |-> TRUE, message |-> message]

\* `${filePath}.backup.${Date.now()}`, by its base name.
BackupName(filePath, ms) == [t |-> "name", base |-> Basename(filePath), ms |-> ms]

\* A createBackup that names the backup without copying the file.
createBackup_NoCopy(filePath, fault, ms, fsv, bks) ==
    IF Exists(fsv, filePath)
    THEN [threw |-> FALSE, backups |-> bks, value |-> BackupName(filePath, ms)]
    ELSE [threw |-> FALSE, backups |-> bks, value |-> Null]

createBackup(filePath, fault, ms, fsv, bks) ==
    IF Exists(fsv, filePath)
    THEN IF fault = "copy"
         THEN Threw(<<"EACCES: permission denied, copyfile">>) @@ [backups |-> bks]
         ELSE [threw |-> FALSE,
               backups |-> [bks EXCEPT ![<<filePath, ms>>] = fsv[filePath]],
               value |-> BackupName(filePath, ms)]
    ELSE [threw |-> FALSE, backups |-> bks, value |-> Null]

\* A readConfig that hands on what it cannot parse instead of an empty object.
readConfig_Strict(filePath, fault, fsv) ==
    IF Exists(fsv, filePath) /\ fault # "read"
    THEN IF fsv[filePath].kind = "file" THEN fsv[filePath].json ELSE Null
    ELSE Obj(<<>>)

\* The catch covers existsSync, readFileSync and JSON.parse alike.
readConfig(filePath, fault, fsv) ==
    IF Exists(fsv, filePath) /\ fault # "read" /\ fsv[filePath].kind = "file"
    THEN fsv[filePath].json
    ELSE Obj(<<>>)

\* wrapper['jira'] = entry, on whatever value the wrapper key holds.
SetJira(wrapper, entry) ==
    CASE wrapper.t = "obj" -> [threw |-> FALSE, value |-> Obj(Put(wrapper.m, "jira", entry))]
      [] wrapper.t = "arr" ->
            [threw |-> FALSE, value |-> [wrapper EXCEPT !.props = Put(wrapper.props, "jira", entry)]]
      [] OTHER -> Threw(<<"TypeError: Cannot create property 'jira'">>)

\* if (!config[wrapperKey]) config[wrapperKey] = {}; config[wrapperKey]['jira'] = entry
MergeEntry(config, wrapperKey, entry) ==
    CASE config.t = "obj" ->
            LET held == IF Has(config, wrapperKey) THEN config.m[wrapperKey] ELSE Null
                wrapper == IF Truthy(held) THEN held ELSE Obj(<<>>)
                set == SetJira(wrapper, entry)
            IN  IF set.threw THEN set
                ELSE [threw |-> FALSE, value |-> Obj(Put(config.m, wrapperKey, set.value))]
      [] config.t = "arr" ->
            [threw |-> FALSE,
             value |-> [config EXCEPT !.props = Put(config.props, wrapperKey, Obj([jira |-> entry]))]]
      [] config.t = "null" -> Threw(<<"TypeError: Cannot read properties of null">>)
      [] OTHER -> Threw(<<"TypeError: Cannot create property">>)

ensureDir(filePath, fault, dirsv) ==
    IF Dirname(filePath) \in dirsv
    THEN [threw |-> FALSE, dirs |-> dirsv]
    ELSE IF fault = "mkdir"
         THEN Threw(<<"EACCES: permission denied, mkdir">>) @@ [dirs |-> dirsv]
         ELSE [threw |-> FALSE, dirs |-> dirsv \cup {Dirname(filePath)}]

\* fs.writeFileSync(configPath, JSON.stringify(config, null, 2) + '\n')
writeFileSync(filePath, config, fault, fsv) ==
    CASE filePath \notin DOMAIN fsv ->
            Threw(<<"ENOENT: no such file or directory, open">>) @@ [fs |-> fsv]
      [] fault = "open" ->
            Threw(<<"EACCES: permission denied, open">>) @@ [fs |-> fsv]
      [] fault = "truncated" ->
            Threw(<<"ENOSPC: no space left on device, write">>)
                @@ [fs |-> [fsv EXCEPT ![filePath] = Garbage]]
      [] OTHER ->
            [threw |-> FALSE, fs |-> [fsv EXCEPT ![filePath] = Text("pretty", Stringify(config))]]

(***************************************************************************)
(* Batch installer: installTool and batchInstall.                          *)
(***************************************************************************)
Err(message) == [t |-> "error", message |-> message]

\* Lines 187-191: the server entry is chosen by the tool's id.
ServerEntryFor(tool, credentials) ==
    IF tool.id = "opencode"
    THEN createOpenCodeConfig(credentials)
    ELSE createClaudeConfig(credentials)

\* An actualScope that is the requested scope whatever the validator says.
ActualScope_Requested(validation, scope) == scope

\* actualScope = validation.fallbackScope || scope
ActualScope(validation, scope) ==
    IF validation.fallbackScope # Null THEN validation.fallbackScope.v ELSE scope

InstallResult(tool, success, configPath, actualScope, scopeFallback, errorMessage, backupName) ==
    [toolId |-> tool.id,
     toolName |-> tool.displayName,
     success |-> success,
     configPath |-> configPath,
     actualScope |-> actualScope,
     scopeFallback |-> scopeFallback,
     errorMessage |-> errorMessage,
     backupName |-> backupName]

Fulfilled(value) == [status |-> "fulfilled", value |-> value]
Rejected(message) == [status |-> "rejected", reason |-> Err(message)]

Effect(outcome, fsv, bks, dirsv) ==
    [outcome |-> outcome, fs |-> fsv, backups |-> bks, dirs |-> dirsv]

\* One installTool call at time ms on the filesystem (fsv, bks, dirsv): the
\* promise's outcome and the filesystem it leaves.  The function has no await,
\* so the call runs to its return without interleaving.
installTool(options, fault, ms, fsv, bks, dirsv) ==
    LET tool == options.tool
        scope == options.scope
        validation == validateToolScope(tool, scope, options.registry)
        actualScope == ActualScope(validation, scope)
        scopeFallback == validation.fallbackScope # Null
    IN  IF ~tool.hasConfig
        THEN \* tool.config is undefined: getConfigPathForScope throws outside the try
             Effect(Rejected(<<"TypeError: Cannot read properties of undefined">>), fsv, bks, dirsv)
        ELSE
        LET configPathTemplate == getConfigPathForScope(tool, actualScope)
        IN  IF configPathTemplate = Null
            THEN Effect(Fulfilled(InstallResult(tool, FALSE, Null, actualScope, scopeFallback,
                            Err(<<"No config path available for", actualScope, "scope">>), Null)),
                        fsv, bks, dirsv)
            ELSE
            LET configPath == resolvePlatformPath(configPathTemplate.v)
                backup == createBackup(configPath, fault, ms, fsv, bks)
                config == readConfig(configPath, fault, fsv)
                wrapperKey == tool.config.configFormat.wrapperKey
                merged == MergeEntry(config, wrapperKey, ServerEntryFor(tool, options.credentials))
                dir == ensureDir(configPath, fault, dirsv)
                written == writeFileSync(configPath, merged.value, fault, fsv)
                Caught(e) == Fulfilled(InstallResult(tool, FALSE, Str(configPath), actualScope,
                                                     scopeFallback, Err(e.message), Null))
            IN  IF backup.threw THEN Effect(Caught(backup), fsv, bks, dirsv)
                ELSE IF merged.threw THEN Effect(Caught(merged), fsv, backup.backups, dirsv)
                ELSE IF dir.threw THEN Effect(Caught(dir), fsv, backup.backups, dirsv)
                ELSE IF written.threw THEN Effect(Caught(written), written.fs, backup.backups, dir.dirs)
                ELSE Effect(Fulfilled(InstallResult(tool, TRUE, Str(configPath), actualScope,
                                                    scopeFallback, Null, backup.value)),
                            written.fs, backup.backups, dir.dirs)

\* Lines 234-250: the result batchInstall builds from one settled promise.
SettledToResult(r) ==
    IF r.status = "fulfilled"
    THEN r.value
    ELSE [toolId |-> "unknown",
          toolName |-> <<"Unknown">>,
          success |-> FALSE,
          configPath |-> Null,
          actualScope |-> "user",
          scopeFallback |-> FALSE,
          errorMessage |-> r.reason,
          backupName |-> Null]

\* A batchInstall that keeps the fulfilled promises only, as detectAll does.
MapSettled_FulfilledOnly(rs) ==
    LET kept == SelectSeq(rs, LAMBDA r : r.status = "fulfilled")
    IN  [i \in 1..Len(kept) |-> SettledToResult(kept[i])]

\* results.map(...) over the settled promises, in order.
MapSettled(rs) == [i \in 1..Len(rs) |-> SettledToResult(rs[i])]

(***************************************************************************)
(* The files an install may find.                                          *)
(***************************************************************************)
OtherServer == Obj([command |-> Str("existing-command"), args |-> Arr(<<>>)])
OldJira ==
    Obj([command |-> Str("old-command"), args |-> Arr(<<>>), disabled |-> Str("true"),
         env |-> Obj([JIRA_BASE_URL |-> Str("https://old.jira.com")])])

ExistingDoc ==
    Obj([theme |-> Str("dark"),
         mcpServers |-> Obj([other |-> OtherServer, jira |-> OldJira]),
         mcp |-> Obj([jira |-> OldJira])])

\* Wrapper keys that hold something else than an object.
OddDoc ==
    Obj([mcpServers |-> Str("x"), mcp |-> Null, servers |-> Arr(<<Str("s")>>)])

InitialContents ==
    { Absent, Garbage,
      Text("compact", ExistingDoc), Text("compact", OddDoc),
      Text("compact", Null), Text("compact", Arr(<<Str("item")>>)) }

BackupSlots == Paths \X (0..MaxTime)

InstallInit ==
    /\ tui = Null
    /\ http = Null
    /\ now = 0
    /\ form \in CredentialForms
    /\ \E c \in InitialContents : fs = [p \in Paths |-> IF p = HomeFile THEN c ELSE Absent]
    /\ backups = [b \in BackupSlots |-> Absent]
    /\ dirs = {"/home/u", "."}
    /\ batch = [pc |-> "idle", len |-> 0, scope |-> "user"]
    /\ settled = <<>>
    /\ batchResults = <<>>
    /\ clock = [ms |-> 0, ticks |-> 0]
    /\ memoryCache = Null
    /\ fileCache = Absent
    /\ heap = <<>>
    /\ calls = <<>>
    /\ started = 0
    /\ promise = Null
    /\ stale = -1
    /\ request = Null
    /\ verdict = Null
    /\ detectorCache = NoResults
    /\ passes = <<>>
    /\ found = Null
    /\ onPath = {}
    /\ changes = 0
    /\ setup = Null

\* batchInstall(options) is called with a list of n options, all for the scope
\* and the credentials of the session (use-keyboard-handlers.ts, lines 85-90).
BatchStart(n, scope) ==
    /\ batch.pc = "idle"
    /\ batch' = [pc |-> "running", len |-> n, scope |-> scope]
    /\ UNCHANGED <<now, form, fs, backups, dirs, settled, batchResults, fetchVars, validatorVars, detectVars, setupVars, tuiVars, clientVars>>

\* The InstallOptions the batch holds for a tool.
OptionsOf(name) ==
    [tool |-> ToolOf(name), scope |-> batch.scope, credentials |-> form, registry |-> McpRegistry]

\* options.map(opt => installTool(opt)) reaches the next option.  A fault that
\* the install never meets is no input of its own.
Install(name, fault) ==
    /\ batch.pc = "running"
    /\ Len(settled) < batch.len
    /\ LET options == OptionsOf(name)
           e == installTool(options, fault, now, fs, backups, dirs)
       IN  /\ fault # "none" => e # installTool(options, "none", now, fs, backups, dirs)
           /\ fs' = e.fs
           /\ backups' = e.backups
           /\ dirs' = e.dirs
           /\ settled' = Append(settled, e.outcome @@ [tool |-> name, fault |-> fault])
    /\ UNCHANGED <<now, form, batch, batchResults, fetchVars, validatorVars, detectVars, setupVars, tuiVars, clientVars>>

\* Date.now() moves on between two installs of the batch.
Tick ==
    /\ batch.pc = "running"
    /\ 0 < Len(settled) /\ Len(settled) < batch.len
    /\ now < MaxTime
    /\ now' = now + 1
    /\ UNCHANGED <<form, fs, backups, dirs, batch, settled, batchResults, fetchVars, validatorVars, detectVars, setupVars, tuiVars, clientVars>>

\* Promise.allSettled resolves and batchInstall returns the mapped results.
BatchReturn ==
    /\ batch.pc = "running"
    /\ Len(settled) = batch.len
    /\ batchResults' = MapSettled(settled)
    /\ batch' = [batch EXCEPT !.pc = "returned"]
    /\ UNCHANGED <<now, form, fs, backups, dirs, settled, fetchVars, validatorVars, detectVars, setupVars, tuiVars, clientVars>>

InstallNext ==
    \/ \E n \in 0..MaxBatch, scope \in RequestedScopes : BatchStart(n, scope)
    \/ \E name \in ToolNames, fault \in Faults : Install(name, fault)
    \/ Tick
    \/ BatchReturn

SpecInstall == InstallInit /\ [][InstallNext]_vars

(***************************************************************************)
(* Config fetcher (src/config-fetcher.ts).  A catalog object is a          *)
(* reference into heap; two references are the same object iff they are    *)
(* equal.  A fetchMcpConfig call is a record in calls; it moves from one   *)
(* await to the next in one step.                                          *)
(***************************************************************************)
CACHE_TTL == 60 * 1000
TIMEOUT == 10000
DEFAULT_RETRIES == 3

\* The options callers pass.
RetryChoices == {1, DEFAULT_RETRIES}
TimeoutChoices == {0, TIMEOUT}

\* Date.now() is seen to advance by half a ttl at a time: longer than the
\* request timeout and than any backoff, and twice is a whole ttl.
Durations == {CACHE_TTL \div 2}

\* Top-level keys the zod object keeps, and the ones it requires.
KnownKeys == {"$schema", "$id", "version", "lastUpdated", "description", "clients"}
RequiredKeys == {"version", "lastUpdated", "clients"}

\* The same for the object of one client, and the enum of wrapper keys.
ClientKeys ==
    {"name", "vendor", "description", "docsUrl", "configLocations", "configFormat", "cli",
     "scopes", "transportSupport", "notes"}
RequiredClientKeys == {"name", "configLocations", "configFormat", "scopes", "transportSupport"}
WrapperKeys == {"mcpServers", "mcp", "servers", "context_servers", "mcp_servers"}

NoKeys == [k \in {} |-> Null]

\* z.array(z.string()) and z.record(z.string()) on a parsed JSON value.
StringArray(v) == v.t = "arr" /\ \A i \in DOMAIN v.items : v.items[i].t = "str"
StringRecord(v) == v.t = "obj" /\ \A k \in DOMAIN v.m : v.m[k].t = "str"

\* The zod object of one client (lines 37-59) accepts the members c.
ClientAccepted(c) ==
    /\ RequiredClientKeys \subseteq DOMAIN c
    /\ c.name.t = "str"
    /\ c.configLocations.t = "obj"
    /\ \A os \in DOMAIN c.configLocations.m : StringRecord(c.configLocations.m[os])
    /\ c.configFormat.t = "obj"
    /\ Has(c.configFormat, "wrapperKey")
    /\ c.configFormat.m["wrapperKey"].t = "str"
    /\ c.configFormat.m["wrapperKey"].v \in WrapperKeys
    /\ Has(c.configFormat, "serverSchema")
    /\ c.configFormat.m["serverSchema"].t = "obj"
    /\ StringArray(c.scopes)
    /\ StringArray(c.transportSupport)

\* The members of a client object as the registry JSON has them.
ClientJson(name, wrapperKey, scopes) ==
    [name |-> Str(name),
     configLocations |-> Obj([os \in {"linux"} |-> Obj([scope \in {"user"} |-> Str("~/a.json")])]),
     configFormat |-> Obj([k \in {"wrapperKey", "serverSchema"} |->
                              IF k = "wrapperKey" THEN Str(wrapperKey) ELSE Obj(NoKeys)]),
     scopes |-> scopes,
     transportSupport |-> Arr(<<Str("stdio")>>)]

ClaudeCodeJson == ClientJson("Claude Code", "mcpServers", Arr(<<Str("user"), Str("project")>>))

CatalogJson(version, clients) ==
    [version |-> version, lastUpdated |-> "2025-01-01", clients |-> clients]

\* Response bodies: text that is no JSON; a catalog with a key the schema does
\* not know; a catalog whose clients map is empty; a catalog whose client has a
\* wrapper key outside the enum.
Bodies ==
    { [parses |-> FALSE],
      [parses |-> TRUE, json |-> CatalogJson("1.0.0", [n \in {"claude-code"} |-> ClaudeCodeJson])
                                    @@ [experimental |-> "x"]],
      [parses |-> TRUE, json |-> CatalogJson("1.0.0", NoKeys)],
      [parses |-> TRUE, json |->
          CatalogJson("1.0.0", [n \in {"claude-code"} |->
              ClientJson("Claude Code", "servers_v2", Arr(<<Str("user")>>))])] }

\* response.headers.get('ETag') || undefined
EtagOf(body) == IF body.parses /\ "experimental" \in DOMAIN body.json THEN Str("W/1") ELSE Null

\* What one fetch() attempt can end in: a 2xx response with a body, a non-2xx
\* response or a network error, or the abort of the timeout.
Responses ==
    {[kind |-> "ok", body |-> b, etag |-> EtagOf(b)] : b \in Bodies}
        \cup {[kind |-> "error"], [kind |-> "abort"]}

\* validateConfig(JSON.parse(data)): safeParse keeps the known keys only, of the
\* catalog and of each client.
validateConfig(body) ==
    IF ~body.parses THEN Threw(<<"SyntaxError: Unexpected token">>)
    ELSE IF ~(RequiredKeys \subseteq DOMAIN body.json) THEN Threw(<<"Invalid MCP config schema">>)
    ELSE IF \E n \in DOMAIN body.json.clients : ~ClientAccepted(body.json.clients[n])
         THEN Threw(<<"Invalid MCP config schema">>)
    ELSE [threw |-> FALSE,
          value |-> [k \in DOMAIN body.json \cap KnownKeys |->
                        IF k = "clients"
                        THEN [n \in DOMAIN body.json.clients |->
                                 [f \in DOMAIN body.json.clients[n] \cap ClientKeys |->
                                     body.json.clients[n][f]]]
                        ELSE body.json[k]]]

\* The cache file as persistToFile writes it.
CacheFile(data, etag, fetchedAt) ==
    [kind |-> "file", entry |-> [data |-> data, etag |-> etag, fetchedAt |-> fetchedAt, ttl |-> CACHE_TTL]]

FetchFaults == {"none", "write", "read", "unlink"}

\* persistToFile: a refused mkdir or write is logged and nothing else.
persistToFile(data, etag, fault, nowMs, file) ==
    IF fault = "write" THEN file ELSE CacheFile(data, etag, nowMs)

\* readFromFile: the cached catalog, or Null for a missing, unreadable or
\* unparseable file and for an entry whose data is no object.
readFromFile(fault, file) ==
    IF file = Absent \/ file = Garbage \/ fault = "read" THEN Null
    ELSE IF file.entry.data = Null THEN Null
    ELSE [t |-> "catalog", v |-> file.entry.data]

\* Cache files an earlier process may have left.
StaleCatalog == CatalogJson("0.9.0", [n \in {"claude-code"} |-> ClaudeCodeJson])
InitialCacheFiles ==
    { Absent, CacheFile(Null, Null, 0 - CACHE_TTL), CacheFile(StaleCatalog, Null, 0 - CACHE_TTL) }

\* line 252, skewed: a memory entry counts for half of its ttl only.
MemoryHit_HalfLife(forceRefresh, cache, nowMs) ==
    ~forceRefresh /\ cache # Null /\ 2 * (nowMs - cache.fetchedAt) < cache.ttl

\* line 252: !forceRefresh && memoryCache && Date.now() - fetchedAt < ttl
MemoryHit(forceRefresh, cache, nowMs) ==
    ~forceRefresh /\ cache # Null /\ nowMs - cache.fetchedAt < cache.ttl

CacheEntry(ref, etag, nowMs) ==
    [data |-> ref, etag |-> etag, fetchedAt |-> nowMs, ttl |-> CACHE_TTL]

\* A call as it starts; forceRefresh and timeout are read before the first await
\* only, so the call in flight carries on without them.
NewCall(forceRefresh, retries, timeout, nowMs) ==
    [forceRefresh |-> forceRefresh, retries |-> retries, timeout |-> timeout,
     pc |-> "start", attempt |-> 0, attempts |-> 0, fileReads |-> 0,
     at |-> nowMs, response |-> Null, error |-> <<>>]

InFlight(c, pc, attempts, error) ==
    [retries |-> c.retries, pc |-> pc, attempt |-> 0, attempts |-> attempts, fileReads |-> 0,
     at |-> c.at, response |-> Null, error |-> error]

\* fetchWithRetry has returned or thrown: its loop index and timer are gone.
Left(c, pc, response, error) ==
    [c EXCEPT !.pc = pc, !.response = response, !.error = error, !.attempt = 0, !.at = 0]

\* The promise of a call that went in flight; a promise shows the options it was
\* made with until it is settled by a later step.
Pending(c) ==
    [pc |-> "pending", source |-> "none", result |-> 0, error |-> <<>>,
     forceRefresh |-> c.forceRefresh, timeout |-> c.timeout,
     attempts |-> 0, fileReads |-> 0, at |-> 0]

\* The promise of a settled call: its outcome and what the call did on the way.
\* A call served from memory keeps the time at which it looked at the entry.
Settle(c, pc, source, result, error) ==
    [pc |-> pc, source |-> source, result |-> result, error |-> error,
     attempts |-> c.attempts, fileReads |-> c.fileReads,
     at |-> IF source = "memory" THEN c.at ELSE 0]

FetchEffect(c, mem, file, hp) == [call |-> c, memoryCache |-> mem, fileCache |-> file, heap |-> hp]

\* Lines 275-290, with the memory entry carrying the cache file's fetchedAt
\* in place of Date.now().
fallbackToFile_FileStamp(c, fault, nowMs, mem, file, hp) ==
    LET fileData == readFromFile(fault, file)
        read == [c EXCEPT !.fileReads = c.fileReads + 1]
    IN  IF fileData # Null
        THEN FetchEffect(Settle(read, "returned", "file", Len(hp) + 1, <<>>),
                         CacheEntry(Len(hp) + 1, Null, file.entry.fetchedAt), file,
                         Append(hp, fileData.v))
        ELSE FetchEffect(Settle(read, "threw", "none", 0,
                                <<"Failed to fetch MCP configuration and no cached data available.">>),
                         mem, file, hp)

\* Lines 275-290, without line 280: the file's catalog is returned and the
\* memory cache is left as it was.
fallbackToFile_KeepMemory(c, fault, nowMs, mem, file, hp) ==
    LET fileData == readFromFile(fault, file)
        read == [c EXCEPT !.fileReads = c.fileReads + 1]
    IN  IF fileData # Null
        THEN FetchEffect(Settle(read, "returned", "file", Len(hp) + 1, <<>>),
                         mem, file, Append(hp, fileData.v))
        ELSE FetchEffect(Settle(read, "threw", "none", 0,
                                <<"Failed to fetch MCP configuration and no cached data available.">>),
                         mem, file, hp)

\* Lines 275-290, with a catch that empties the memory cache before it throws.
fallbackToFile_ClearMemory(c, fault, nowMs, mem, file, hp) ==
    LET fileData == readFromFile(fault, file)
        read == [c EXCEPT !.fileReads = c.fileReads + 1]
    IN  IF fileData # Null
        THEN FetchEffect(Settle(read, "returned", "file", Len(hp) + 1, <<>>),
                         CacheEntry(Len(hp) + 1, Null, nowMs), file, Append(hp, fileData.v))
        ELSE FetchEffect(Settle(read, "threw", "none", 0,
                                <<"Failed to fetch MCP configuration and no cached data available.">>),
                         Null, file, hp)

\* Lines 275-290: the catch of fetchMcpConfig.
fallbackToFile(c, fault, nowMs, mem, file, hp) ==
    LET fileData == readFromFile(fault, file)
        read == [c EXCEPT !.fileReads = c.fileReads + 1]
    IN  IF fileData # Null
        THEN FetchEffect(Settle(read, "returned", "file", Len(hp) + 1, <<>>),
                         CacheEntry(Len(hp) + 1, Null, nowMs), file, Append(hp, fileData.v))
        ELSE FetchEffect(Settle(read, "threw", "none", 0,
                                <<"Failed to fetch MCP configuration and no cached data available.">>),
                         mem, file, hp)

\* Lines 267-274, without line 270: the catalog goes to the memory cache only.
afterFetch_MemoryOnly(c, fault, nowMs, mem, file, hp) ==
    LET validated == validateConfig(c.response.body)
    IN  IF validated.threw
        THEN fallbackToFile(c, fault, nowMs, mem, file, hp)
        ELSE FetchEffect(Settle(c, "returned", "network", Len(hp) + 1, <<>>),
                         CacheEntry(Len(hp) + 1, c.response.etag, nowMs),
                         file,
                         Append(hp, validated.value))

\* Lines 267-274: the body has arrived; parse, validate, update both caches.
afterFetch(c, fault, nowMs, mem, file, hp) ==
    LET validated == validateConfig(c.response.body)
    IN  IF validated.threw
        THEN fallbackToFile(c, fault, nowMs, mem, file, hp)
        ELSE FetchEffect(Settle(c, "returned", "network", Len(hp) + 1, <<>>),
                         CacheEntry(Len(hp) + 1, c.response.etag, nowMs),
                         persistToFile(validated.value, c.response.etag, fault, nowMs, file),
                         Append(hp, validated.value))

Remove(seq, k) == [i \in 1..(Len(seq) - 1) |-> IF i < k THEN seq[i] ELSE seq[i + 1]]

FetchInit ==
    /\ tui = Null
    /\ http = Null
    /\ now = 0
    /\ form \in CredentialForms
    /\ fs = [p \in Paths |-> Absent]
    /\ backups = [b \in BackupSlots |-> Absent]
    /\ dirs = {"/home/u", "."}
    /\ batch = [pc |-> "idle", len |-> 0, scope |-> "user"]
    /\ settled = <<>>
    /\ batchResults = <<>>
    /\ clock = [ms |-> 0, ticks |-> 0]
    /\ memoryCache = Null
    /\ fileCache \in InitialCacheFiles
    /\ heap = <<>>
    /\ calls = <<>>
    /\ started = 0
    /\ promise = Null
    /\ stale = -1
    /\ request = Null
    /\ verdict = Null
    /\ detectorCache = NoResults
    /\ passes = <<>>
    /\ found = Null
    /\ onPath = {}
    /\ changes = 0
    /\ setup = Null

\* fetchMcpConfig(options) runs to its first await (lines 247-267, 186-191).
FetchStart(forceRefresh, retries, timeout) ==
    /\ started < MaxCalls
    /\ started' = started + 1
    /\ LET c == NewCall(forceRefresh, retries, timeout, clock.ms)
       IN  IF MemoryHit(forceRefresh, memoryCache, clock.ms)
           THEN /\ promise' = Settle(c, "returned", "memory", memoryCache.data, <<>>)
                                  @@ [forceRefresh |-> forceRefresh, timeout |-> timeout]
                /\ UNCHANGED <<memoryCache, calls>>
           ELSE /\ memoryCache' = Null
                /\ IF timeout = 0
                   THEN /\ promise' = Settle(c, "threw", "none", 0,
                                             <<"Remote fetch disabled by configuration">>)
                                          @@ [forceRefresh |-> forceRefresh, timeout |-> timeout]
                        /\ calls' = calls
                   ELSE /\ promise' = Pending(c)
                        /\ calls' = Append(calls,
                              IF ~(0 < retries)
                              THEN Left(InFlight(c, "failed", 0, <<>>), "failed", Null,
                                        <<"All fetch attempts failed">>)
                              ELSE InFlight(c, "fetching", 1, <<>>))
    /\ stale' = IF stale > 0 /\ promise'.pc # "pending" THEN 0 ELSE stale
    /\ UNCHANGED <<clock, fileCache, heap, installVars, validatorVars, detectVars, setupVars, tuiVars, clientVars>>

\* The fetch() of call k settles (lines 191-221).
Respond(k, resp) ==
    /\ calls[k].pc = "fetching"
    /\ LET c == calls[k]
           waited == clock.ms - c.at
       IN  CASE resp.kind = "abort" ->
                  /\ waited >= TIMEOUT
                  /\ calls' = [calls EXCEPT ![k] =
                        Left(c, "failed", Null, <<"Request timeout after 10000ms">>)]
             [] resp.kind = "ok" ->
                  /\ waited < TIMEOUT
                  /\ calls' = [calls EXCEPT ![k] = Left(c, "fetched", resp, <<>>)]
             [] OTHER ->
                  /\ waited < TIMEOUT
                  /\ calls' = [calls EXCEPT ![k] =
                        IF c.attempt = c.retries - 1
                        THEN Left(c, "failed", Null, <<"fetch failed">>)
                        ELSE [c EXCEPT !.pc = "sleeping",
                                       !.at = clock.ms + 1000 * 2 ^ c.attempt]]
    /\ UNCHANGED <<clock, memoryCache, fileCache, heap, started, promise, stale, installVars, validatorVars, detectVars, setupVars, tuiVars, clientVars>>

\* The backoff of call k is over: the next attempt is sent.
Wake(k) ==
    /\ calls[k].pc = "sleeping"
    /\ clock.ms >= calls[k].at
    /\ calls' = [calls EXCEPT ![k] =
          [calls[k] EXCEPT !.pc = "fetching", !.attempt = calls[k].attempt + 1,
                           !.attempts = calls[k].attempts + 1, !.at = clock.ms]]
    /\ UNCHANGED <<clock, memoryCache, fileCache, heap, started, promise, stale, installVars, validatorVars, detectVars, setupVars, tuiVars, clientVars>>

\* Call k resumes after fetchWithRetry, with a body or in the catch, and settles;
\* its promise shows the file operation that was refused on the way, if any.
\* The calls a clearCache has overtaken are the first `stale` ones in flight;
\* they are counted until a call that began after it has settled or a cache
\* has been filled again.
Resume(k, fault) ==
    /\ calls[k].pc \in {"fetched", "failed"}
    /\ fault \in {"none", "write", "read"}
    /\ LET Run(f) == IF calls[k].pc = "fetched"
                     THEN afterFetch(calls[k], f, clock.ms, memoryCache, fileCache, heap)
                     ELSE fallbackToFile(calls[k], f, clock.ms, memoryCache, fileCache, heap)
           e == Run(fault)
       IN  /\ fault # "none" => e # Run("none")
           /\ promise' = e.call @@ [fault |-> fault]
           /\ calls' = Remove(calls, k)
           /\ memoryCache' = e.memoryCache
           /\ fileCache' = e.fileCache
           /\ heap' = e.heap
    /\ stale' = IF stale <= 0 THEN stale
                ELSE IF k <= stale /\ memoryCache' = Null /\ fileCache' = Absent
                THEN stale - 1 ELSE 0
    /\ UNCHANGED <<clock, started, installVars, validatorVars, detectVars, setupVars, tuiVars, clientVars>>

\* A clearCache that removes the file and leaves the memory entry.
clearCache_FileOnly(fault, mem, file) ==
    [memoryCache |-> mem, fileCache |-> IF fault = "unlink" THEN file ELSE Absent]

\* clearCache(), lines 297-308: a refused unlink is logged and nothing else.
clearCache(fault, mem, file) ==
    [memoryCache |-> Null, fileCache |-> IF fault = "unlink" THEN file ELSE Absent]

\* getCacheStatus(), lines 314-325; age is there with a memory entry only.
getCacheStatus(mem, file, nowMs) ==
    [memory |-> mem # Null,
     file |-> file # Absent,
     age |-> IF mem # Null THEN <<nowMs - mem.fetchedAt>> ELSE <<>>]

ClearCache(fault) ==
    /\ fault \in {"none", "unlink"}
    /\ fault = "unlink" => fileCache # Absent
    /\ memoryCache' = clearCache(fault, memoryCache, fileCache).memoryCache
    /\ fileCache' = clearCache(fault, memoryCache, fileCache).fileCache
    /\ memoryCache # Null \/ fileCache' # fileCache
    /\ stale' = IF stale < 0 THEN stale ELSE IF fault = "unlink" THEN 0 ELSE Len(calls)
    /\ UNCHANGED <<clock, heap, calls, started, promise, installVars, validatorVars, detectVars, setupVars, tuiVars, clientVars>>

\* Time passes in the fetcher's process while something depends on it: a
\* memory entry's age, a pending attempt's timeout or a backoff.
Advance(d) ==
    /\ clock.ticks < MaxTicks
    /\ memoryCache # Null \/ \E k \in 1..Len(calls) : calls[k].pc \in {"fetching", "sleeping"}
    /\ clock' = [ms |-> clock.ms + d, ticks |-> clock.ticks + 1]
    /\ UNCHANGED <<memoryCache, fileCache, heap, calls, started, promise, stale, installVars, validatorVars, detectVars, setupVars, tuiVars, clientVars>>

FetchNext ==
    \/ \E forceRefresh \in BOOLEAN, retries \in RetryChoices, timeout \in TimeoutChoices :
          FetchStart(forceRefresh, retries, timeout)
    \/ \E k \in 1..Len(calls), resp \in Responses : Respond(k, resp)
    \/ \E k \in 1..Len(calls) : Wake(k)
    \/ \E k \in 1..Len(calls), fault \in FetchFaults : Resume(k, fault)
    \/ \E fault \in FetchFaults : ClearCache(fault)
    \/ \E d \in Durations : Advance(d)

SpecFetch == FetchInit /\ [][FetchNext]_vars

\* The fetcher again, with the calls a clearCache overtakes followed.
OvertakeInit ==
    /\ tui = Null
    /\ http = Null
    /\ now = 0
    /\ form \in CredentialForms
    /\ fs = [p \in Paths |-> Absent]
    /\ backups = [b \in BackupSlots |-> Absent]
    /\ dirs = {"/home/u", "."}
    /\ batch = [pc |-> "idle", len |-> 0, scope |-> "user"]
    /\ settled = <<>>
    /\ batchResults = <<>>
    /\ clock = [ms |-> 0, ticks |-> 0]
    /\ memoryCache = Null
    /\ fileCache \in InitialCacheFiles
    /\ heap = <<>>
    /\ calls = <<>>
    /\ started = 0
    /\ promise = Null
    /\ stale = 0
    /\ request = Null
    /\ verdict = Null
    /\ detectorCache = NoResults
    /\ passes = <<>>
    /\ found = Null
    /\ onPath = {}
    /\ changes = 0
    /\ setup = Null

SpecOvertake == OvertakeInit /\ [][FetchNext]_vars

(***************************************************************************)
(* Scope validator on its own: validateToolScope is called with a tool, a  *)
(* requested scope and a registry that reports some set of scopes for the  *)
(* client it knows.                                                        *)
(***************************************************************************)
\* ConfigScope of types/mcp-config.ts.
ConfigScopes == {"global", "user", "project", "workspace", "local", "managed"}

\* A ScopeRegistry that knows one client and reports the given scopes for it.
ScopeRegistry(scopes) == [c \in {"claude-desktop"} |-> [scopes |-> scopes]]

\* The tools validated: one the registry knows and one it does not.
ValidatedTools == {ToolOf("claude-desktop"), ToolOf("invalid-tool")}

ValidateInit ==
    /\ tui = Null
    /\ http = Null
    /\ now = 0
    /\ form \in CredentialForms
    /\ fs = [p \in Paths |-> Absent]
    /\ backups = [b \in BackupSlots |-> Absent]
    /\ dirs = {"/home/u", "."}
    /\ batch = [pc |-> "idle", len |-> 0, scope |-> "user"]
    /\ settled = <<>>
    /\ batchResults = <<>>
    /\ clock = [ms |-> 0, ticks |-> 0]
    /\ memoryCache = Null
    /\ fileCache = Absent
    /\ heap = <<>>
    /\ calls = <<>>
    /\ started = 0
    /\ promise = Null
    /\ stale = -1
    /\ request \in [tool : ValidatedTools,
                    requestedScope : RequestedScopes,
                    registry : {ScopeRegistry(scopes) : scopes \in SUBSET ConfigScopes}]
    /\ verdict = Null
    /\ detectorCache = NoResults
    /\ passes = <<>>
    /\ found = Null
    /\ onPath = {}
    /\ changes = 0
    /\ setup = Null

\* validateToolScope(tool, requestedScope, registry) returns.
Validate ==
    /\ request # Null
    /\ verdict = Null
    /\ verdict' = validateToolScope(request.tool, request.requestedScope, request.registry)
    /\ UNCHANGED <<request, installVars, fetchVars, detectVars, setupVars, tuiVars, clientVars>>

ValidateNext == Validate

SpecValidate == ValidateInit /\ [][ValidateNext]_vars

(***************************************************************************)
(* Tool detector (scripts/tui/src/detection.ts).  A catalog entry is the   *)
(* key it is filed under and its descriptor; a descriptor carries the      *)
(* insertion order of its location keys and its cli object as a list of    *)
(* key/value pairs, each value being a command split at its spaces (the    *)
(* empty string is the single empty piece).                                *)
(***************************************************************************)
MaxPasses == 1
MaxChanges == 1

\* Object.entries(config.clients), in the catalog's order: the client of
\* tests/fixtures/mock-registry.ts with cli: { commands: 'claude' }; a client
\* with no location on this platform and no cli object; a client whose cli
\* object has the members CliCommands declares, filed under an id that is not
\* its display name (scripts/installer.mjs mergeTools); and a client managed
\* through its command line only, whose one location is empty.
DetectorCatalog ==
    LET Listed(config, locationOrder, cli) ==
            config @@ [locationOrder |-> locationOrder, cli |-> cli]
    IN << [key |-> "claude-code",
           config |-> Listed(ClaudeCodeConfig, <<"user", "project">>,
                             <<[k |-> "commands", v |-> <<"claude">>]>>)],
          [key |-> "mac-only",
           config |-> Listed(Descriptor("mac-only", "", [macos |-> [user |-> "~/a.json"]],
                                        "mcpServers", {"user"}),
                             <<"user">>, <<>>)],
          [key |-> "amp",
           config |-> Listed(Descriptor("Amp", "Sourcegraph",
                                        [linux |-> [global |-> "/w/b.json"]],
                                        "mcp", {"global"}),
                             <<"global">>,
                             <<[k |-> "add", v |-> <<"amp", "mcp", "add">>],
                               [k |-> "list", v |-> <<"amp", "mcp", "list">>]>>)],
          [key |-> "cli-only",
           config |-> Listed(Descriptor("cli-only", "", [linux |-> [user |-> ""]],
                                        "mcpServers", {"user"}),
                             <<"user">>,
                             <<[k |-> "commands", v |-> <<"amp">>],
                               [k |-> "list", v |-> <<"">>],
                               [k |-> "add", v |-> <<"claude", "mcp", "add">>]>>)] >>

\* new Map(Object.entries(config.clients)): the index by key.
createRegistryFromConfig(entries) ==
    [c \in {entries[i].key : i \in 1..Len(entries)} |->
        (CHOOSE e \in {entries[i] : i \in 1..Len(entries)} : e.key = c).config]

getAllClients(entries) == [i \in 1..Len(entries) |-> entries[i].config]

getDetectableClients_All(entries, platform) == getAllClients(entries)

getDetectableClients(entries, platform) ==
    LET Locates(client) ==
            /\ mapPlatform(platform) \in DOMAIN client.configLocations
            /\ DOMAIN client.configLocations[mapPlatform(platform)] # {}
    IN SelectSeq(getAllClients(entries), Locates)

\* Object.values(platformLocations).filter(p => typeof p === 'string' && p.length > 0)
getPlatformPaths(config, platform) ==
    IF mapPlatform(platform) \notin DOMAIN config.configLocations THEN <<>>
    ELSE LET platformLocations == config.configLocations[mapPlatform(platform)]
             Declared(s) == s \in DOMAIN platformLocations
             keys == SelectSeq(config.locationOrder, Declared)
             values == [i \in 1..Len(keys) |-> platformLocations[keys[i]]]
             NonEmpty(p) == p # ""
         IN SelectSeq(values, NonEmpty)

getConfigPaths(registry, clientName, platform) ==
    IF getClient(registry, clientName) = Null THEN <<>>
    ELSE getPlatformPaths(getClient(registry, clientName), platform)

checkPath(pathStr, fsv) == Exists(fsv, resolvePlatformPath(pathStr))

getPrimaryConfigPath_Template(paths, fsv) ==
    LET hits == {i \in 1..Len(paths) : checkPath(paths[i], fsv)}
    IN IF hits = {} THEN Null
       ELSE Str(paths[CHOOSE i \in hits : \A j \in hits : i <= j])

\* The first candidate that exists, resolved; null when none does.
getPrimaryConfigPath(paths, fsv) ==
    LET hits == {i \in 1..Len(paths) : checkPath(paths[i], fsv)}
    IN IF hits = {} THEN Null
       ELSE Str(resolvePlatformPath(paths[CHOOSE i \in hits : \A j \in hits : i <= j]))

\* A DetectionResult of the detector: the fields the installer reads and
\* name, configPath, configPaths and detected.
Detected(config, configPath, paths, detected) ==
    DetectionResult(config) @@
    [name |-> config.name, configPath |-> configPath,
     configPaths |-> paths, detected |-> detected]

\* The commands detectTool probes: none unless config.cli?.commands is truthy,
\* else every non-empty string member of config.cli, in its order.
cliCommands(config) ==
    LET Given(e) == e.v # <<"">>
    IN IF \E i \in 1..Len(config.cli) : config.cli[i].k = "commands" /\ Given(config.cli[i])
       THEN SelectSeq(config.cli, Given)
       ELSE <<>>

\* checkCommand(cmd): `which cmd` succeeds.
checkCommand(cmd, path) == cmd \in path

\* Strategy 1 has found a command (detection.ts 126-138).
commandFound(config) ==
    LET paths == getPlatformPaths(config, process_platform)
    IN Detected(config, IF paths = <<>> THEN Null ELSE Str(paths[1]), paths, TRUE)

\* Strategy 2 (detection.ts 145-157).
probePaths(config, fsv) ==
    LET paths == getPlatformPaths(config, process_platform)
        existingPath == getPrimaryConfigPath(paths, fsv)
    IN Detected(config, existingPath, paths, existingPath # Null)

\* A detectTool task: the descriptor it runs on, where it stands, the command
\* it probes next, its result and the strategy that produced the result.
Task(config, pc, i, result, by) ==
    [config |-> config, pc |-> pc, i |-> i, result |-> result, by |-> by]

\* detectTool runs without interruption up to its first await: a cached
\* result is returned at once, a descriptor with commands waits for its
\* first checkCommand, any other is settled by the path probe.
detectTool_NoCache(config, cachev, fsv) ==
    IF cliCommands(config) # <<>>
    THEN [task |-> Task(config, "probing", 1, Null, "none"), cache |-> cachev]
    ELSE [task |-> Task(config, "done", 0, probePaths(config, fsv), "path"),
          cache |-> Put(cachev, config.name, probePaths(config, fsv))]

detectTool(config, cachev, fsv) ==
    IF config.name \in DOMAIN cachev
    THEN [task |-> Task(config, "done", 0, cachev[config.name], "cache"), cache |-> cachev]
    ELSE IF cliCommands(config) # <<>>
    THEN [task |-> Task(config, "probing", 1, Null, "none"), cache |-> cachev]
    ELSE [task |-> Task(config, "done", 0, probePaths(config, fsv), "path"),
          cache |-> Put(cachev, config.name, probePaths(config, fsv))]

\* clients.map(config => this.detectTool(config)): the tasks start in order,
\* each seeing the cache the ones before it have left.
RECURSIVE StartAll(_, _, _)
StartAll(clients, cachev, fsv) ==
    IF clients = <<>> THEN [tasks |-> <<>>, cache |-> cachev]
    ELSE LET first == detectTool(Head(clients), cachev, fsv)
             rest == StartAll(Tail(clients), first.cache, fsv)
         IN [tasks |-> <<first.task>> \o rest.tasks, cache |-> rest.cache]

DetectInit ==
    /\ tui = Null
    /\ http = Null
    /\ now = 0
    /\ form \in CredentialForms
    /\ fs = [p \in Paths |-> Absent]
    /\ backups = [b \in BackupSlots |-> Absent]
    /\ dirs = {"/home/u", "."}
    /\ batch = [pc |-> "idle", len |-> 0, scope |-> "user"]
    /\ settled = <<>>
    /\ batchResults = <<>>
    /\ clock = [ms |-> 0, ticks |-> 0]
    /\ memoryCache = Null
    /\ fileCache = Absent
    /\ heap = <<>>
    /\ calls = <<>>
    /\ started = 0
    /\ promise = Null
    /\ stale = -1
    /\ request = Null
    /\ verdict = Null
    /\ detectorCache = NoResults
    /\ passes = <<>>
    /\ found = Null
    /\ onPath = {}
    /\ changes = 0
    /\ setup = Null

\* detectAll() is called: every task starts, in registry order.  steady
\* records that the environment has not changed since the call.
DetectAll ==
    /\ Len(passes) < MaxPasses
    /\ LET all == StartAll(getDetectableClients(DetectorCatalog, process_platform),
                           detectorCache, fs)
       IN /\ passes' = Append(passes, [tasks |-> all.tasks, steady |-> TRUE])
          /\ detectorCache' = all.cache
    /\ UNCHANGED <<found, onPath, changes, installVars, fetchVars, validatorVars, setupVars, tuiVars, clientVars>>

\* A task resumes from `await checkCommand(cmdName)`: a command that is found
\* settles it, a command that is not leads to the next one, and after the
\* last one to the path probe.
Probe(k, j) ==
    /\ k <= Len(passes)
    /\ j <= Len(passes[k].tasks)
    /\ passes[k].tasks[j].pc = "probing"
    /\ LET task == passes[k].tasks[j]
           config == task.config
           commands == cliCommands(config)
           cmdName == Head(commands[task.i].v)
           after ==
               IF checkCommand(cmdName, onPath)
               THEN Task(config, "done", 0, commandFound(config), "cli")
               ELSE IF task.i < Len(commands)
               THEN Task(config, "probing", task.i + 1, Null, "none")
               ELSE Task(config, "done", 0, probePaths(config, fs), "path")
       IN /\ passes' = [passes EXCEPT ![k].tasks[j] = after]
          /\ detectorCache' = IF after.pc = "done"
                              THEN Put(detectorCache, config.name, after.result)
                              ELSE detectorCache
    /\ UNCHANGED <<found, onPath, changes, installVars, fetchVars, validatorVars, setupVars, tuiVars, clientVars>>

\* Promise.allSettled has settled and detectAll returns the fulfilled values,
\* which are the results of its tasks in their order.  fresh records that
\* every client has been probed and the environment has not changed since.
DetectReturn(k) ==
    /\ k <= Len(passes)
    /\ \A j \in 1..Len(passes[k].tasks) : passes[k].tasks[j].pc = "done"
    /\ found' = [results |-> [j \in 1..Len(passes[k].tasks) |-> passes[k].tasks[j].result],
                 fresh |-> /\ passes[k].steady
                           /\ \A j \in 1..Len(passes[k].tasks) :
                                  passes[k].tasks[j].by # "cache"]
    /\ passes' = Remove(passes, k)
    /\ UNCHANGED <<detectorCache, onPath, changes, installVars, fetchVars, validatorVars, setupVars, tuiVars, clientVars>>

\* clearCache().
ClearDetections ==
    /\ detectorCache # NoResults
    /\ detectorCache' = NoResults
    /\ UNCHANGED <<passes, found, onPath, changes, installVars, fetchVars, validatorVars, setupVars, tuiVars, clientVars>>

\* The environment changes under the detector: a config file appears or
\* disappears, a command is installed or removed.
EnvChange ==
    /\ changes < MaxChanges
    /\ changes' = changes + 1
    /\ \/ \E p \in Paths :
             /\ fs' = [fs EXCEPT ![p] = IF fs[p] = Absent THEN Garbage ELSE Absent]
             /\ UNCHANGED onPath
       \/ \E c \in {"claude", "amp"} :
             /\ onPath' = IF c \in onPath THEN onPath \ {c} ELSE onPath \cup {c}
             /\ UNCHANGED fs
    /\ passes' = [k \in 1..Len(passes) |-> [passes[k] EXCEPT !.steady = FALSE]]
    /\ found' = IF found = Null THEN Null ELSE [found EXCEPT !.fresh = FALSE]
    /\ UNCHANGED <<now, form, backups, dirs, batch, settled, batchResults,
                   detectorCache, fetchVars, validatorVars, setupVars, tuiVars, clientVars>>

DetectNext ==
    \/ DetectAll
    \/ \E k \in 1..MaxPasses : \E j \in 1..Len(DetectorCatalog) : Probe(k, j)
    \/ \E k \in 1..MaxPasses : DetectReturn(k)
    \/ ClearDetections
    \/ EnvChange

SpecDetect == DetectInit /\ [][DetectNext]_vars

(***************************************************************************)
(* Setup command (src/setup.ts).  An option that was never assigned, or    *)
(* was assigned args[i + 1] past the end of the list, is undefined, which  *)
(* is Null here; a string s is Str(s).                                      *)
(***************************************************************************)
parseSetupArgs(args) ==
    LET validClis == {"claude-code", "claude-desktop", "github-copilot", "cursor",
                      "windsurf", "roo-code", "zed", "factory-droid", "antigravity",
                      "gemini-cli", "opencode", "vscode-copilot", "jetbrains-copilot",
                      "codex-cli"}
        OptionOf(arg) ==
            CASE arg \in {"-c", "--cli"} -> "cli"
              [] arg \in {"-b", "--base-url", "--url"} -> "baseUrl"
              [] arg \in {"-u", "--username"} -> "username"
              [] arg \in {"-p", "--password"} -> "password"
              [] arg \in {"-s", "--scope"} -> "scope"
              [] OTHER -> ""
        RECURSIVE Loop(_, _)
        Loop(i, options) ==
            IF i > Len(args) THEN options
            ELSE IF OptionOf(args[i]) = "" THEN Loop(i + 1, options)
            ELSE Loop(i + 2, [options EXCEPT ![OptionOf(args[i])] =
                                 IF i + 1 <= Len(args) THEN Str(args[i + 1]) ELSE Null])
        options == Loop(1, [cli |-> Null, baseUrl |-> Null, username |-> Null,
                            password |-> Null, scope |-> Str("user")])
    IN IF ~Truthy(options.cli) \/ options.cli.v \notin validClis THEN Null
       ELSE IF ~Truthy(options.baseUrl) \/ ~Truthy(options.username) \/ ~Truthy(options.password)
       THEN Null
       ELSE IF Truthy(options.scope) /\ options.scope.v \notin {"user", "project"} THEN Null
       ELSE options

\* A getConfigFileInfo that answers an unsupported scope with the user scope.
getConfigFileInfo_Fallback(registry, cli, scope) ==
    LET client == getClient(registry, cli.v)
        locations == client.configLocations[mapPlatform(process_platform)]
        used == IF scope.t = "str" /\ scope.v \in getScopesForClient(registry, cli.v)
                THEN scope.v ELSE "user"
    IN IF client = Null THEN Null
       ELSE IF mapPlatform(process_platform) \notin DOMAIN client.configLocations THEN Null
       ELSE IF used \notin DOMAIN locations \/ locations[used] = "" THEN Null
       ELSE [path |-> resolvePlatformPath(locations[used]),
             wrapperKey |-> client.configFormat.wrapperKey, serverKey |-> "jira"]

\* getConfigFileInfo on a loaded registry: null for a client the registry
\* does not know, a scope the client does not declare, a platform or a scope
\* without a path; path.resolve leaves the resolved absolute path as it is.
getConfigFileInfo(registry, cli, scope) ==
    LET client == getClient(registry, cli.v)
        locations == client.configLocations[mapPlatform(process_platform)]
    IN IF client = Null THEN Null
       ELSE IF ~(scope.t = "str" /\ scope.v \in getScopesForClient(registry, cli.v)) THEN Null
       ELSE IF mapPlatform(process_platform) \notin DOMAIN client.configLocations THEN Null
       ELSE IF scope.v \notin DOMAIN locations \/ locations[scope.v] = "" THEN Null
       ELSE [path |-> resolvePlatformPath(locations[scope.v]),
             wrapperKey |-> client.configFormat.wrapperKey, serverKey |-> "jira"]

\* injectMcpConfig once the registry is there: what it returns and the files
\* and directories it leaves.
injectMcpConfig(options, configInfo, fault, fsv, dirsv) ==
    IF configInfo = Null
    THEN [success |-> FALSE,
          message |-> <<"Error: ", options.cli.v, " does not support ",
                        IF options.scope = Null THEN "undefined" ELSE options.scope.v,
                        " scope configuration.">>,
          fs |-> fsv, dirs |-> dirsv]
    ELSE LET merged == MergeEntry(readConfig(configInfo.path, fault, fsv),
                                  configInfo.wrapperKey,
                                  createClaudeConfig([baseUrl |-> options.baseUrl.v,
                                                      username |-> options.username.v,
                                                      password |-> options.password.v]))
             ensured == ensureDir(configInfo.path, fault, dirsv)
             written == writeFileSync(configInfo.path, merged.value, fault, fsv)
         IN IF merged.threw
            THEN [success |-> FALSE, message |-> <<"Error writing config: ">> \o merged.message,
                  fs |-> fsv, dirs |-> dirsv]
            ELSE IF ensured.threw
            THEN [success |-> FALSE, message |-> <<"Error writing config: ">> \o ensured.message,
                  fs |-> fsv, dirs |-> dirsv]
            ELSE IF written.threw
            THEN [success |-> FALSE, message |-> <<"Error writing config: ">> \o written.message,
                  fs |-> written.fs, dirs |-> ensured.dirs]
            ELSE [success |-> TRUE,
                  message |-> <<"Successfully configured Jira MCP for ", options.cli.v,
                                options.scope.v, configInfo.path>>,
                  fs |-> written.fs, dirs |-> ensured.dirs]

\* The command line is one group of arguments per option, in a fixed order;
\* a flag may come without its value.
SetupInit ==
    /\ tui = Null
    /\ http = Null
    /\ now = 0
    /\ form \in CredentialForms
    /\ \E c \in {Absent, Text("compact", ExistingDoc), Text("compact", OddDoc)} :
          fs = [p \in Paths |-> IF p = HomeFile THEN c ELSE Absent]
    /\ backups = [b \in BackupSlots |-> Absent]
    /\ dirs = {"/home/u", "."}
    /\ batch = [pc |-> "idle", len |-> 0, scope |-> "user"]
    /\ settled = <<>>
    /\ batchResults = <<>>
    /\ clock = [ms |-> 0, ticks |-> 0]
    /\ memoryCache = Null
    /\ fileCache = Absent
    /\ heap = <<>>
    /\ calls = <<>>
    /\ started = 0
    /\ promise = Null
    /\ stale = -1
    /\ request = Null
    /\ verdict = Null
    /\ detectorCache = NoResults
    /\ passes = <<>>
    /\ found = Null
    /\ onPath = {}
    /\ changes = 0
    /\ \E cli \in {<<>>, <<"-c", "claude-code">>, <<"--cli", "claude-desktop">>,
                   <<"--cli", "amp">>, <<"-c">>} :
       \E url \in {<<>>, <<"-b", "https://jira.example.com">>, <<"--url", "">>} :
       \E user \in {<<>>, <<"-u", "testuser">>} :
       \E scope \in {<<>>, <<"-s", "user">>, <<"--scope", "project">>,
                     <<"-s", "global">>, <<"-s", "">>, <<"-s">>} :
          setup = [pc |-> "start",
                   args |-> cli \o url \o user \o <<"-p", "testpass">> \o scope,
                   options |-> Null, registryCache |-> Null, result |-> Null]

\* parseSetupArgs(process.argv.slice(...)).
ParseArgs ==
    /\ setup.pc = "start"
    /\ setup' = [setup EXCEPT !.pc = "parsed", !.options = parseSetupArgs(setup.args)]
    /\ UNCHANGED <<installVars, fetchVars, validatorVars, detectVars, tuiVars, clientVars>>

\* injectMcpConfig(options), with the options parseSetupArgs returned or with
\* options a caller has built.  The registry is fetched on first use; when
\* the fetch fails the call rejects.
Inject ==
    /\ setup.pc \in {"start", "parsed"}
    /\ \E options \in
            (IF setup.pc = "parsed" /\ setup.options # Null THEN {setup.options} ELSE {})
            \cup (IF setup.pc = "start"
                  THEN [cli : {Str(c) : c \in {"claude-code", "claude-desktop", "opencode",
                                               "zed", "windsurf", "codex-cli"}},
                        baseUrl : {Str(form.baseUrl)}, username : {Str(form.username)},
                        password : {Str(form.password)},
                        scope : {Str("user"), Str("project")}]
                  ELSE {}) :
       \E fault \in {"none", "open"} : \E loaded \in BOOLEAN :
          LET registry ==
                  McpRegistry @@
                  [zed |-> Descriptor("zed", "", [linux |-> [user |-> "~/a.json", project |-> ""]],
                                      "context_servers", {"user", "project"}),
                   windsurf |-> Descriptor("windsurf", "", [macos |-> [user |-> "~/a.json"]],
                                           "mcpServers", {"user"})]
              outcome == injectMcpConfig(options, getConfigFileInfo(registry, options.cli, options.scope),
                                         fault, fs, dirs)
          IN IF loaded
             THEN /\ setup' = [setup EXCEPT !.pc = "done", !.options = options,
                                            !.registryCache = registry,
                                            !.result = [success |-> outcome.success,
                                                        message |-> outcome.message]]
                  /\ fs' = outcome.fs
                  /\ dirs' = outcome.dirs
             ELSE /\ setup' = [setup EXCEPT !.pc = "done", !.options = options,
                                            !.result = Threw(<<"No MCP configuration available">>)]
                  /\ UNCHANGED <<fs, dirs>>
    /\ UNCHANGED <<now, form, backups, batch, settled, batchResults,
                   fetchVars, validatorVars, detectVars, tuiVars, clientVars>>

SetupNext == ParseArgs \/ Inject

SpecSetup == SetupInit /\ [][SetupNext]_vars

(***************************************************************************)
(* The installer's terminal UI (scripts/tui/src): the state App hands to   *)
(* the keyboard handler of hooks/use-keyboard-handlers.ts, the handler     *)
(* itself, view by view, and the fixed-tool injector of config.ts.  A text *)
(* field is a sequence of characters; a key is its name and its ctrl flag. *)
(***************************************************************************)
\* A DetectedTool of the fixed-tool detector: it has a name and no
\* displayName and no registry config.
DetectedTool(id, name) ==
    [id |-> id, name |-> name, displayName |-> Null, hasConfig |-> FALSE, config |-> Null]

\* getConfigPath(tool): CONFIG_PATHS holds one file under the home directory
\* for each fixed tool, whatever scope is selected.
getConfigPath(tool) ==
    CASE tool = "claude-desktop" -> resolvePlatformPath("$HOME/a.json")
      [] tool = "claude-code" -> resolvePlatformPath("~/a.json")
      [] OTHER -> resolvePlatformPath("~/a.json")

\* injectConfig(tool, creds), config.ts lines 78-120.
injectConfig(tool, creds, fault, ms, fsv, bks, dirsv) ==
    LET configPath == getConfigPath(tool)
        backup == createBackup(configPath, fault, ms, fsv, bks)
        wrapperKey == IF tool = "opencode" THEN "mcp" ELSE "mcpServers"
        merged == MergeEntry(readConfig(configPath, fault, fsv), wrapperKey,
                             IF tool = "opencode" THEN createOpenCodeConfig(creds)
                             ELSE createClaudeConfig(creds))
        dir == ensureDir(configPath, fault, dirsv)
        written == writeFileSync(configPath, merged.value, fault, fsv)
        Caught(e) == [success |-> FALSE, backupName |-> Null, message |-> <<"Failed: ">> \o e.message]
    IN  IF backup.threw THEN Effect(Caught(backup), fsv, bks, dirsv)
        ELSE IF merged.threw THEN Effect(Caught(merged), fsv, backup.backups, dirsv)
        ELSE IF dir.threw THEN Effect(Caught(dir), fsv, backup.backups, dirsv)
        ELSE IF written.threw THEN Effect(Caught(written), written.fs, backup.backups, dir.dirs)
        ELSE Effect([success |-> TRUE, backupName |-> backup.value,
                     message |-> <<"Configured Jira MCP for ", tool>>],
                    written.fs, backup.backups, dir.dirs)

\* batchInstall(options) up to its await: options.map(opt => installTool(opt))
\* runs the installs one after the other, each on what the one before left.
RECURSIVE batchInstall(_, _, _, _, _)
SettledAfter(e, rest) == [rest EXCEPT !.settled = <<e.outcome>> \o rest.settled]

InstallRest(e, options, ms) ==
    SettledAfter(e, batchInstall(Tail(options), ms, e.fs, e.backups, e.dirs))

batchInstall(options, ms, fsv, bks, dirsv) ==
    IF options = <<>>
    THEN [settled |-> <<>>, fs |-> fsv, backups |-> bks, dirs |-> dirsv]
    ELSE InstallRest(installTool(Head(options), "none", ms, fsv, bks, dirsv), options, ms)

\* validateBatchScopes, validation.ts lines 73-79.
validateBatchScopes(toolList, requestedScope, registry) ==
    [i \in 1..Len(toolList) |-> validateToolScope(toolList[i], requestedScope, registry)]

\* The texts a user types into the credentials form, character by character.
HttpUrl == <<"h", "t", "t", "p", ":", "/", "/">>
HttpsUrl == <<"h", "t", "t", "p", "s", ":", "/", "/">>
Prefixes(s) == {SubSeq(s, 1, n) : n \in 0..Len(s)}
TypedTexts ==
    [baseUrl |-> Prefixes(HttpUrl) \cup Prefixes(HttpsUrl),
     username |-> {<<>>, <<"u">>},
     password |-> {<<>>, <<"p">>}]

StartsWith(s, prefix) == Len(s) >= Len(prefix) /\ SubSeq(s, 1, Len(prefix)) = prefix

\* Line 206 without the test of the scheme.
credentialsComplete_NoScheme(f) ==
    f.baseUrl # <<>> /\ f.username # <<>> /\ f.password # <<>>

\* Line 206: form.baseUrl && form.username && form.password &&
\* /^https?:\/\//.test(form.baseUrl)
credentialsComplete(f) ==
    /\ f.baseUrl # <<>> /\ f.username # <<>> /\ f.password # <<>>
    /\ (StartsWith(f.baseUrl, HttpUrl) \/ StartsWith(f.baseUrl, HttpsUrl))

\* value.trimEnd(), then everything up to and including the last space.
deleteWord(value) ==
    LET ends == {n \in 0..Len(value) : \A i \in (n + 1)..Len(value) : value[i] = " "}
        trimmed == SubSeq(value, 1, CHOOSE n \in ends : \A m \in ends : n <= m)
        spaces == {i \in 1..Len(trimmed) : trimmed[i] = " "}
    IN  IF spaces = {} THEN <<>>
        ELSE SubSeq(trimmed, 1, CHOOSE i \in spaces : \A j \in spaces : j <= i)

fieldMap == [url |-> "baseUrl", username |-> "username", password |-> "password"]

\* Key names that the credentials view does not take as text (line 257).
NotText ==
    {"up", "down", "left", "right", "home", "end", "pageup", "pagedown", "delete", "insert",
     "f1", "f2", "f3", "f4", "f5", "f6", "f7", "f8", "f9", "f10", "f11", "f12"}

Key(name, ctrl) == [name |-> name, ctrl |-> ctrl]

\* The keys a user presses.
TuiKeys ==
    {Key(n, FALSE) : n \in {"y", "n", "q", "escape", "space", "return", "up", "down", "tab",
                            "a", "m", "1", "2", "backspace", "delete",
                            "h", "t", "p", "s", ":", "/", "u"}}
        \cup {Key("w", TRUE), Key("u", TRUE)}

\* tools.filter(t => selectedTools.has(t.id))
selectedToolsArray(t) == SelectSeq(t.tools, LAMBDA x : x.id \in t.selectedTools)

EmptyForm == [baseUrl |-> <<>>, username |-> <<>>, password |-> <<>>]

\* App as it mounts: the menu, nothing selected, the user scope, an empty
\* form; the registry is loaded or could not be fetched.
TuiInit ==
    /\ tui \in [view : {"menu"},
                tools : {<<ToolOf("claude-code"), ToolOf("claude-desktop")>>},
                legacyTools : {<<DetectedTool("claude-code", "Claude Code (CLI)")>>},
                selectedIndex : {0},
                multiSelectCursorIndex : {0},
                selectedTool : {Null},
                selectedTools : {{}},
                selectedScope : {"user"},
                validationResults : {<<>>},
                form : {EmptyForm},
                currentField : {"url"},
                registry : {Null, McpRegistry},
                result : {Null},
                batchResults : {<<>>},
                pending : {Null},
                attempted : {{}}]
    /\ http = Null
    /\ now = 0
    /\ form \in CredentialForms
    /\ fs = [p \in Paths |-> Absent]
    /\ backups = [b \in BackupSlots |-> Absent]
    /\ dirs = {"/home/u", "."}
    /\ batch = [pc |-> "idle", len |-> 0, scope |-> "user"]
    /\ settled = <<>>
    /\ batchResults = <<>>
    /\ clock = [ms |-> 0, ticks |-> 0]
    /\ memoryCache = Null
    /\ fileCache = Absent
    /\ heap = <<>>
    /\ calls = <<>>
    /\ started = 0
    /\ promise = Null
    /\ stale = -1
    /\ request = Null
    /\ verdict = Null
    /\ detectorCache = NoResults
    /\ passes = <<>>
    /\ found = Null
    /\ onPath = {}
    /\ changes = 0
    /\ setup = Null

\* Lines 70-76: the result views and the installing view take the quit keys
\* only; process.exit ends the program with whatever was pending.
ResultKeys(key) ==
    /\ tui.view \in {"success", "error", "results", "installing"}
    /\ IF key.name \in {"q", "Q", "escape"}
       THEN tui' = [tui EXCEPT !.view = "exited", !.pending = Null]
       ELSE UNCHANGED tui
    /\ UNCHANGED <<installVars, fetchVars, validatorVars, detectVars, setupVars, clientVars>>

\* Lines 78-104: the confirm view.  The installs of batchInstall run inside
\* the handler, before its await; its results arrive later.  With no
\* selectedTool, selectedTool!.id throws out of the handler.
ConfirmKeys(key, fault) ==
    /\ tui.view = "confirm"
    /\ fault \in {"none", "open"}
    /\ IF key.name \in {"y", "Y"}
       THEN IF Cardinality(tui.selectedTools) > 1 /\ tui.registry # Null
            THEN LET chosen == selectedToolsArray(tui)
                     options == [i \in 1..Len(chosen) |->
                                    [tool |-> chosen[i], scope |-> tui.selectedScope,
                                     credentials |-> tui.form, registry |-> tui.registry]]
                     b == batchInstall(options, now, fs, backups, dirs)
                 IN  /\ fault = "none"
                     /\ tui' = [tui EXCEPT
                           !.view = "installing",
                           !.pending = b.settled,
                           !.attempted =
                               {[id |-> chosen[i].id, credentials |-> tui.form,
                                 path |-> IF b.settled[i].status = "fulfilled"
                                          THEN b.settled[i].value.configPath ELSE Null] :
                                   i \in 1..Len(chosen)}]
                     /\ fs' = b.fs
                     /\ backups' = b.backups
                     /\ dirs' = b.dirs
            ELSE IF tui.selectedTool = Null
            THEN /\ fault = "none"
                 /\ \E left \in {"confirm", "crashed"} :
                       tui' = [tui EXCEPT !.view = left, !.attempted = {}]
                 /\ UNCHANGED <<fs, backups, dirs>>
            ELSE LET e == injectConfig(tui.selectedTool.id, tui.form, fault, now, fs, backups, dirs)
                 IN  /\ fault # "none" =>
                            e # injectConfig(tui.selectedTool.id, tui.form, "none", now, fs, backups, dirs)
                     /\ tui' = [tui EXCEPT
                           !.result = e.outcome,
                           !.view = IF e.outcome.success THEN "success" ELSE "error",
                           !.attempted = {[id |-> tui.selectedTool.id, credentials |-> tui.form,
                                           path |-> Str(getConfigPath(tui.selectedTool.id))]}]
                     /\ fs' = e.fs
                     /\ backups' = e.backups
                     /\ dirs' = e.dirs
       ELSE /\ fault = "none"
            /\ IF key.name \in {"n", "N", "escape"}
               THEN tui' = [tui EXCEPT !.view = "credentials"]
               ELSE UNCHANGED tui
            /\ UNCHANGED <<fs, backups, dirs>>
    /\ UNCHANGED <<now, form, batch, settled, batchResults,
                   fetchVars, validatorVars, detectVars, setupVars, clientVars>>

\* Lines 91-93: batchInstall has resolved.
BatchSettled ==
    /\ tui.view = "installing"
    /\ tui.pending # Null
    /\ tui' = [tui EXCEPT !.batchResults = MapSettled(tui.pending),
                          !.pending = Null,
                          !.view = "results"]
    /\ UNCHANGED <<installVars, fetchVars, validatorVars, detectVars, setupVars, clientVars>>

\* Lines 106-121: the scope selection view.
ScopeSelectKeys(key) ==
    /\ tui.view = "scope-select"
    /\ IF key.name \in {" ", "space"}
       THEN tui' = [tui EXCEPT !.selectedScope = IF @ = "user" THEN "project" ELSE "user"]
       ELSE IF key.name = "return" THEN tui' = [tui EXCEPT !.view = "credentials"]
       ELSE IF key.name = "escape" THEN tui' = [tui EXCEPT !.view = "multi-select"]
       ELSE UNCHANGED tui
    /\ UNCHANGED <<installVars, fetchVars, validatorVars, detectVars, setupVars, clientVars>>

\* Lines 123-180: the multi-select view.
MultiSelectKeys(key) ==
    /\ tui.view = "multi-select"
    /\ LET cursor == tui.multiSelectCursorIndex
           last == Len(tui.tools) - 1
       IN  IF key.name \in {"q", "Q", "escape"}
           THEN tui' = [tui EXCEPT !.view = "exited"]
           ELSE IF key.name \in {"up", "k"}
           THEN tui' = [tui EXCEPT !.multiSelectCursorIndex = IF cursor - 1 < 0 THEN 0 ELSE cursor - 1]
           ELSE IF key.name \in {"down", "j"}
           THEN tui' = [tui EXCEPT !.multiSelectCursorIndex = IF cursor + 1 > last THEN last ELSE cursor + 1]
           ELSE IF key.name \in {" ", "space"}
           THEN IF cursor + 1 \in 1..Len(tui.tools)
                THEN tui' = [tui EXCEPT !.selectedTools =
                                IF tui.tools[cursor + 1].id \in @
                                THEN @ \ {tui.tools[cursor + 1].id}
                                ELSE @ \cup {tui.tools[cursor + 1].id}]
                ELSE UNCHANGED tui
           ELSE IF key.name = "a"
           THEN tui' = [tui EXCEPT !.selectedTools = {tui.tools[i].id : i \in 1..Len(tui.tools)}]
           ELSE IF key.name = "n"
           THEN tui' = [tui EXCEPT !.selectedTools = {}]
           ELSE IF key.name = "return"
           THEN IF tui.selectedTools # {} /\ tui.registry # Null
                THEN tui' = [tui EXCEPT
                        !.validationResults =
                            validateBatchScopes(selectedToolsArray(tui), tui.selectedScope, tui.registry),
                        !.view = "scope-select"]
                ELSE IF tui.selectedTools = {} THEN tui' = [tui EXCEPT !.view = "menu"]
                ELSE UNCHANGED tui
           ELSE UNCHANGED tui
    /\ UNCHANGED <<installVars, fetchVars, validatorVars, detectVars, setupVars, clientVars>>

\* Lines 182-266: the credentials view.  Keys are pressed that leave every
\* field one of TypedTexts.
CredentialsKeys(key) ==
    /\ tui.view = "credentials"
    /\ LET fieldKey == fieldMap[tui.currentField]
           value == tui.form[fieldKey]
       IN  IF key.name \in {"up", "k"}
           THEN tui' = [tui EXCEPT !.currentField =
                           IF @ = "password" THEN "username"
                           ELSE IF @ = "username" THEN "url" ELSE @]
           ELSE IF key.name \in {"down", "j", "tab"}
           THEN tui' = [tui EXCEPT !.currentField =
                           IF @ = "url" THEN "username"
                           ELSE IF @ = "username" THEN "password" ELSE @]
           ELSE IF key.name = "return"
           THEN IF credentialsComplete(tui.form)
                THEN tui' = [tui EXCEPT !.view = "confirm"]
                ELSE UNCHANGED tui
           ELSE IF key.name = "escape"
           THEN IF tui.selectedTools # {}
                THEN tui' = [tui EXCEPT !.view = "scope-select"]
                ELSE tui' = [tui EXCEPT !.view = "menu", !.form = EmptyForm, !.currentField = "url"]
           ELSE IF key.name = "backspace"
           THEN tui' = [tui EXCEPT !.form[fieldKey] = SubSeq(value, 1, Len(value) - 1)]
           ELSE IF key.ctrl /\ key.name = "w"
           THEN tui' = [tui EXCEPT !.form[fieldKey] = deleteWord(value)]
           ELSE IF key.ctrl /\ key.name = "u"
           THEN tui' = [tui EXCEPT !.form[fieldKey] = <<>>]
           ELSE IF ~key.ctrl /\ key.name \notin NotText
           THEN tui' = [tui EXCEPT !.form[fieldKey] = Append(value, key.name)]
           ELSE UNCHANGED tui
    /\ \A k \in DOMAIN TypedTexts : tui'.form[k] \in TypedTexts[k]
    /\ UNCHANGED <<installVars, fetchVars, validatorVars, detectVars, setupVars, clientVars>>

\* parseInt(key.name, 10) for the keys at hand; 0 stands for NaN.
parseInt(name) ==
    CASE name = "1" -> 1 [] name = "2" -> 2 [] OTHER -> 0

\* Lines 291-300 and 317-326: a tool of the menu is chosen.
chooseTool(t, idx) ==
    LET tool == t.legacyTools[idx + 1]
        chosen == [t EXCEPT !.selectedTool = tool]
    IN  IF t.registry # Null
        THEN [chosen EXCEPT !.selectedTools = {tool.id},
                            !.validationResults =
                                validateBatchScopes(<<tool>>, t.selectedScope, t.registry),
                            !.view = "scope-select"]
        ELSE [chosen EXCEPT !.view = "credentials"]

\* Lines 268-330: the menu view.
MenuKeys(key) ==
    /\ tui.view = "menu"
    /\ LET last == Len(tui.legacyTools) - 1
           index == tui.selectedIndex
           numKey == parseInt(key.name)
       IN  IF key.name \in {"q", "Q", "escape"}
           THEN tui' = [tui EXCEPT !.view = "exited"]
           ELSE IF key.name \in {"up", "k"}
           THEN tui' = [tui EXCEPT !.selectedIndex = IF index - 1 < 0 THEN 0 ELSE index - 1]
           ELSE IF key.name \in {"down", "j"}
           THEN tui' = [tui EXCEPT !.selectedIndex = IF index + 1 > last THEN last ELSE index + 1]
           ELSE IF numKey >= 1 /\ numKey <= 9
           THEN IF numKey - 1 < Len(tui.legacyTools)
                THEN tui' = chooseTool([tui EXCEPT !.selectedIndex = numKey - 1], numKey - 1)
                ELSE UNCHANGED tui
           ELSE IF key.name \in {"m", "M"}
           THEN IF tui.registry # Null /\ Len(tui.tools) > 0
                THEN tui' = [tui EXCEPT !.view = "multi-select", !.multiSelectCursorIndex = 0]
                ELSE UNCHANGED tui
           ELSE IF key.name = "return"
           THEN IF Len(tui.legacyTools) > 0
                THEN tui' = chooseTool(tui, index)
                ELSE UNCHANGED tui
           ELSE UNCHANGED tui
    /\ UNCHANGED <<installVars, fetchVars, validatorVars, detectVars, setupVars, clientVars>>

TuiNext ==
    \/ \E key \in TuiKeys : ResultKeys(key)
    \/ \E key \in TuiKeys, fault \in Faults : ConfirmKeys(key, fault)
    \/ BatchSettled
    \/ \E key \in TuiKeys : ScopeSelectKeys(key)
    \/ \E key \in TuiKeys : MultiSelectKeys(key)
    \/ \E key \in TuiKeys : CredentialsKeys(key)
    \/ \E key \in TuiKeys : MenuKeys(key)

SpecTui == TuiInit /\ [][TuiNext]_vars

(***************************************************************************)
(* Jira REST client: JiraClient.request.                                   *)
(***************************************************************************)
HttpMethods == {"GET", "POST", "PUT", "DELETE"}

\* Status codes a Jira server answers with.
Statuses == {200, 201, 204, 400, 401, 404, 500}

\* Bodies of responses, as texts.
IssueBody == "{\"key\":\"PROJ-1\"}"
ErrorMessagesBody == "{\"errorMessages\":[\"Issue Does Not Exist\"],\"errors\":{}}"
MessageBody == "{\"errorMessages\":[],\"message\":\"Unauthorized\"}"
HtmlBody == "<html>Bad Gateway</html>"
ResponseBodies == {"", "{}", "null", IssueBody, ErrorMessagesBody, MessageBody, HtmlBody}

\* The content-length header: absent (a chunked response), "0", or the
\* decimal length of a body that is not empty ("n").
ContentLengths == {Null, Str("0"), Str("n")}

\* The responses fetch resolves with: the header agrees with the body, and a
\* 204 has no body.
HttpResponses ==
    {r \in [status : Statuses, contentLength : ContentLengths, body : ResponseBodies] :
        /\ r.contentLength = Str("0") => r.body = ""
        /\ r.contentLength = Str("n") => r.body # ""
        /\ r.status = 204 => r.body = ""}

\* response.ok
ok(response) == response.status >= 200 /\ response.status <= 299

\* JSON.parse on the texts of ResponseBodies.
JSONparse(text) ==
    CASE text = "{}" -> [threw |-> FALSE, value |-> Obj(<<>>)]
      [] text = "null" -> [threw |-> FALSE, value |-> Null]
      [] text = IssueBody -> [threw |-> FALSE, value |-> Obj([key |-> Str("PROJ-1")])]
      [] text = ErrorMessagesBody ->
            [threw |-> FALSE,
             value |-> Obj([errorMessages |-> Arr(<<Str("Issue Does Not Exist")>>),
                            errors |-> Obj(<<>>)])]
      [] text = MessageBody ->
            [threw |-> FALSE,
             value |-> Obj([errorMessages |-> Arr(<<>>), message |-> Str("Unauthorized")])]
      [] OTHER -> [threw |-> TRUE, value |-> Null]

\* Lines 91-95: responseBody ? JSON.parse(responseBody) : {}, the text itself
\* when it does not parse.
parsedBody(responseBody) ==
    IF responseBody = "" THEN Obj(<<>>)
    ELSE IF JSONparse(responseBody).threw THEN Str(responseBody)
    ELSE JSONparse(responseBody).value

\* Lines 98-108: the message of the error.
errorMessage(response, parsed) ==
    IF parsed.t = "obj"
    THEN IF /\ Has(parsed, "errorMessages")
            /\ parsed.m["errorMessages"].t = "arr"
            /\ Len(parsed.m["errorMessages"].items) > 0
         THEN parsed.m["errorMessages"].items[1]
         ELSE IF Has(parsed, "message") /\ parsed.m["message"].t = "str"
         THEN parsed.m["message"]
         ELSE [t |-> "msg", text |-> "Request failed with status", status |-> response.status]
    ELSE [t |-> "msg", text |-> "Request failed with status", status |-> response.status]

JiraApiError(message, statusCode, body) ==
    [name |-> "JiraApiError", message |-> message, statusCode |-> statusCode, body |-> body]

Returned(value) == [kind |-> "returned", value |-> value]
Raised(error) == [kind |-> "raised", error |-> error]

\* Line 84: response.status === 204 || response.headers.get('content-length') === '0'
isEmptyResponse(response) ==
    response.status = 204 \/ response.contentLength = Str("0")

\* Lines 97-111: what request settles with once the text of the body is read.
settleWith(response) ==
    IF ~ok(response)
    THEN Raised(JiraApiError(errorMessage(response, parsedBody(response.body)),
                             response.status, parsedBody(response.body)))
    ELSE Returned(parsedBody(response.body))

ClientInit ==
    /\ http = Null
    /\ tui = Null
    /\ now = 0
    /\ form \in CredentialForms
    /\ fs = [p \in Paths |-> Absent]
    /\ backups = [b \in BackupSlots |-> Absent]
    /\ dirs = {"/home/u", "."}
    /\ batch = [pc |-> "idle", len |-> 0, scope |-> "user"]
    /\ settled = <<>>
    /\ batchResults = <<>>
    /\ clock = [ms |-> 0, ticks |-> 0]
    /\ memoryCache = Null
    /\ fileCache = Absent
    /\ heap = <<>>
    /\ calls = <<>>
    /\ started = 0
    /\ promise = Null
    /\ stale = -1
    /\ request = Null
    /\ verdict = Null
    /\ detectorCache = NoResults
    /\ passes = <<>>
    /\ found = Null
    /\ onPath = {}
    /\ changes = 0
    /\ setup = Null

\* Lines 57-82: request is called and runs to its await of fetch.
Request(method, useAuthEndpoint) ==
    /\ IF http = Null THEN TRUE ELSE http.pc = "settled"
    /\ http' = [pc |-> "fetching", method |-> method, useAuthEndpoint |-> useAuthEndpoint,
                response |-> Null, outcome |-> Null]
    /\ UNCHANGED <<installVars, fetchVars, validatorVars, detectVars, setupVars, tuiVars>>

\* fetch rejects (no response at all): the rejection passes through request.
FetchRejects ==
    /\ http # Null /\ http.pc = "fetching"
    /\ http' = [http EXCEPT !.pc = "settled",
                            !.outcome = Raised([name |-> "TypeError", message |-> Str("fetch failed")])]
    /\ UNCHANGED <<installVars, fetchVars, validatorVars, detectVars, setupVars, tuiVars>>

\* Lines 78-89: fetch resolves; an empty response returns {} at once, any
\* other waits for the text of the body.
FetchResolves(response) ==
    /\ http # Null /\ http.pc = "fetching"
    /\ http' = IF isEmptyResponse(response)
               THEN [http EXCEPT !.pc = "settled", !.response = response,
                                 !.outcome = Returned(Obj(<<>>))]
               ELSE [http EXCEPT !.pc = "reading", !.response = response]
    /\ UNCHANGED <<installVars, fetchVars, validatorVars, detectVars, setupVars, tuiVars>>

\* Lines 89-111: response.text() resolves.
TextResolves ==
    /\ http # Null /\ http.pc = "reading"
    /\ http' = [http EXCEPT !.pc = "settled", !.outcome = settleWith(http.response)]
    /\ UNCHANGED <<installVars, fetchVars, validatorVars, detectVars, setupVars, tuiVars>>

ClientNext ==
    \/ \E method \in HttpMethods, useAuthEndpoint \in BOOLEAN : Request(method, useAuthEndpoint)
    \/ FetchRejects
    \/ \E response \in HttpResponses : FetchResolves(response)
    \/ TextResolves

SpecClient == ClientInit /\ [][ClientNext]_vars

(***************************************************************************)
(* Properties of the batch installer.                                      *)
(***************************************************************************)
\* An installTool call has just settled; Call is its promise with its inputs.
InstallStep == Len(settled') = Len(settled) + 1
Call == settled'[Len(settled')]

\* The resolved target of a settled call, or "" when it has none in the filesystem.
TargetOf(e) ==
    IF e.status = "fulfilled" /\ e.value.configPath # Null THEN e.value.configPath.v ELSE ""

HadTarget(e) == TargetOf(e) \in Paths /\ Exists(fs, TargetOf(e))

\* C1 as stated: every installTool call whose resolved target exists creates
\* exactly one backup <path>.backup.<ms> holding the pre-install content and
\* reports its base name in backupName; without an existing target no backup is
\* created and backupName is null.
C1_Original ==
    [][InstallStep =>
         IF HadTarget(Call)
         THEN /\ backups' = [backups EXCEPT ![<<TargetOf(Call), now>>] = fs[TargetOf(Call)]]
              /\ Call.value.backupName = BackupName(TargetOf(Call), now)
         ELSE /\ backups' = backups
              /\ Call.status = "fulfilled" => Call.value.backupName = Null]_vars

\* C1 (amended): an installTool call whose resolved target exists and whose copy
\* is not refused writes exactly one backup <path>.backup.<ms> holding the
\* pre-install content, and the target is not modified otherwise; backupName is
\* that backup's base name when the install succeeds and null when it fails;
\* without an existing target no backup is written and backupName is null.
C1_Backup ==
    [][InstallStep =>
         IF HadTarget(Call)
         THEN IF Call.fault = "copy"
              THEN /\ backups' = backups
                   /\ fs' = fs
                   /\ ~Call.value.success
                   /\ Call.value.backupName = Null
              ELSE /\ backups' = [backups EXCEPT ![<<TargetOf(Call), now>>] = fs[TargetOf(Call)]]
                   /\ Call.value.backupName =
                        IF Call.value.success THEN BackupName(TargetOf(Call), now) ELSE Null
         ELSE /\ backups' = backups
              /\ Call.status = "fulfilled" => Call.value.backupName = Null]_vars

\* C1 witness: a successful install reported a backup that is on disk.
C1_Witness ==
    \E i \in 1..Len(settled) :
        /\ settled[i].status = "fulfilled"
        /\ settled[i].value.success
        /\ settled[i].value.backupName # Null
        /\ backups[<<TargetOf(settled[i]), settled[i].value.backupName.ms>>] # Absent

\* The tool and the options of a settled call.
ToolIn(e) == ToolOf(e.tool)
WrapperKeyOf(e) == ToolIn(e).config.configFormat.wrapperKey
Succeeded(e) == e.status = "fulfilled" /\ e.value.success

\* Every key of object a but k is a key of object b with the same value, and b
\* has no key besides a's and k.
SameBut(a, b, k) ==
    /\ DOMAIN b.m = DOMAIN a.m \cup {k}
    /\ \A x \in DOMAIN a.m \ {k} : b.m[x] = a.m[x]

\* C2: a successful install into an existing JSON object changes only the jira
\* entry under the descriptor's wrapper key: every other top-level key and every
\* other entry under the wrapper is preserved, and a jira entry already there is
\* replaced by the new entry as a whole.
C2_Original ==
    [][InstallStep /\ Succeeded(Call) /\ HadTarget(Call)
         /\ fs[TargetOf(Call)].kind = "file" /\ fs[TargetOf(Call)].json.t = "obj" =>
         LET old == fs[TargetOf(Call)].json
             new == fs'[TargetOf(Call)].json
             w == WrapperKeyOf(Call)
         IN  /\ fs'[TargetOf(Call)].kind = "file"
             /\ new.t = "obj"
             /\ SameBut(old, new, w)
             /\ (Has(old, w) /\ old.m[w].t = "obj") =>
                    /\ new.m[w].t = "obj"
                    /\ SameBut(old.m[w], new.m[w], "jira")
                    /\ new.m[w].m["jira"] = ServerEntryFor(ToolIn(Call), form)]_vars

\* C3: batchInstall returns one result per option, in input order: the value of
\* a fulfilled install, or one degraded failure for a rejected one; and of two
\* tasks, one without a resolvable path and one that installs, exactly the
\* second succeeds and its file is written.
DegradedFor(e) ==
    [toolId |-> "unknown", toolName |-> <<"Unknown">>, success |-> FALSE, configPath |-> Null,
     actualScope |-> "user", scopeFallback |-> FALSE, errorMessage |-> e.reason,
     backupName |-> Null]

NoPathFor(name) ==
    /\ ToolOf(name).hasConfig
    /\ getConfigPathForScope(ToolOf(name), "user") = Null
    /\ getConfigPathForScope(ToolOf(name), "project") = Null

C3_BatchResults ==
    batch.pc = "returned" =>
        /\ Len(batchResults) = batch.len
        /\ Len(settled) = batch.len
        /\ \A i \in 1..batch.len :
              IF settled[i].status = "fulfilled"
              THEN /\ batchResults[i] = settled[i].value
                   /\ batchResults[i].toolId = ToolIn(settled[i]).id
              ELSE batchResults[i] = DegradedFor(settled[i])
        /\ \A i, j \in 1..batch.len :
              (batch.len = 2 /\ i # j /\ NoPathFor(settled[i].tool) /\ Succeeded(settled[j])) =>
                  /\ ~batchResults[i].success
                  /\ batchResults[j].success
                  /\ fs[TargetOf(settled[j])] =
                        Text("pretty", fs[TargetOf(settled[j])].json)

\* C3 witness: a returned batch with a rejected task before a successful one.
C3_Witness ==
    /\ batch.pc = "returned"
    /\ batch.len = 2
    /\ settled[1].status = "rejected"
    /\ batchResults[1].toolId = "unknown"
    /\ batchResults[2].success

\* C4: actualScope is the validator's fallbackScope when there is one and the
\* requested scope otherwise, scopeFallback tells whether there was one, and
\* the only file an install touches is the one configured for actualScope.
C4_ActualScope ==
    [][InstallStep /\ Call.status = "fulfilled" =>
         LET v == validateToolScope(ToolIn(Call), batch.scope, McpRegistry)
             r == Call.value
             template == getConfigPathForScope(ToolIn(Call), r.actualScope)
         IN  /\ r.actualScope = IF v.fallbackScope = Null THEN batch.scope ELSE v.fallbackScope.v
             /\ r.scopeFallback = (v.fallbackScope # Null)
             /\ r.configPath =
                  IF template = Null THEN Null ELSE Str(resolvePlatformPath(template.v))
             /\ \A p \in Paths : fs'[p] # fs[p] => r.configPath = Str(p)
             /\ (getScopesForClient(McpRegistry, Call.tool) = {"user"} /\ batch.scope = "project") =>
                    /\ r.actualScope = "user"
                    /\ r.scopeFallback
                    /\ r.configPath =
                         Str(resolvePlatformPath(ToolIn(Call).config.configLocations["linux"]["user"]))]_vars

\* C4 witness: a user-only tool asked for project scope was written at its user path.
C4_Witness ==
    \E i \in 1..Len(settled) :
        /\ Succeeded(settled[i])
        /\ batch.scope = "project"
        /\ settled[i].value.scopeFallback
        /\ settled[i].value.actualScope = "user"
        /\ settled[i].value.configPath = Str(HomeFile)
        /\ fs[HomeFile].kind = "file"

\* The validation of a settled call's tool against the batch's scope.
ValidationOf(e) == validateToolScope(ToolIn(e), batch.scope, McpRegistry)

\* The first of two location keys that is set, as the path selection is described.
Preferred(locations, first, second) ==
    LET IsSet(k) == k \in DOMAIN locations /\ locations[k] # ""
    IN  IF IsSet(first) THEN Str(locations[first])
        ELSE IF IsSet(second) THEN Str(locations[second])
        ELSE Null

SelectedTemplate(tool, scope) ==
    IF "linux" \notin DOMAIN tool.config.configLocations THEN Null
    ELSE IF scope = "user"
         THEN Preferred(tool.config.configLocations["linux"], "user", "global")
         ELSE Preferred(tool.config.configLocations["linux"], "project", "local")

\* C5: for actualScope user the target is the platform's user path, else its
\* global path; for project the project path, else the local path; with no
\* locations for the platform or neither key set the install fails with
\* "No config path available", configPath null, and no file, backup or
\* directory is created or modified.
C5_PathSelection ==
    [][InstallStep /\ Call.status = "fulfilled" =>
         LET r == Call.value
             template == SelectedTemplate(ToolIn(Call), r.actualScope)
         IN  IF template = Null
             THEN /\ ~r.success
                  /\ r.configPath = Null
                  /\ r.errorMessage # Null
                  /\ r.errorMessage.message[1] = "No config path available for"
                  /\ r.backupName = Null
                  /\ fs' = fs /\ backups' = backups /\ dirs' = dirs
             ELSE /\ r.configPath = Str(resolvePlatformPath(template.v))
                  /\ \A p \in Paths : fs'[p] # fs[p] => p = resolvePlatformPath(template.v)]_vars

\* C5 witness: one install of the batch had no path and failed, another was
\* written at the second key of its scope (global for user, local for project).
C5_Witness ==
    /\ \E i \in 1..Len(settled) :
          /\ settled[i].status = "fulfilled"
          /\ settled[i].value.configPath = Null
          /\ ~settled[i].value.success
    /\ \E j \in 1..Len(settled) :
          /\ Succeeded(settled[j])
          /\ settled[j].tool \in {"opencode", "amp"}
          /\ LET locations == ToolIn(settled[j]).config.configLocations["linux"]
             IN  IF batch.scope = "user"
                 THEN "user" \notin DOMAIN locations /\ TargetOf(settled[j]) = HomeFile
                 ELSE "project" \notin DOMAIN locations /\ TargetOf(settled[j]) = WorkFile

\* C6: an install in which a filesystem call is refused (while backing up,
\* reading, creating the directory or writing) or the merge throws returns
\* success = false with a non-null errorMessage and does not reject.
C6_Original ==
    \A i \in 1..Len(settled) :
        settled[i].fault # "none" =>
            /\ settled[i].status = "fulfilled"
            /\ ~settled[i].value.success
            /\ settled[i].value.errorMessage # Null

\* C7: an existing target that does not parse as JSON is treated as an empty
\* object: the install succeeds when no filesystem call is refused, and the file
\* a successful install leaves holds the wrapper key with the jira entry and
\* nothing else, in valid JSON.
C7_Malformed ==
    [][InstallStep /\ Call.status = "fulfilled" /\ HadTarget(Call)
         /\ fs[TargetOf(Call)] = Garbage =>
         /\ Call.fault = "none" => Call.value.success
         /\ Call.value.success =>
               fs'[TargetOf(Call)] =
                   Text("pretty",
                        Obj([w \in {WrapperKeyOf(Call)} |->
                                Obj([k \in {"jira"} |-> ServerEntryFor(ToolIn(Call), form)])]))]_vars

\* C7 witness: an install succeeded on a target whose backup is unparseable, and
\* the target now is a JSON object.
C7_Witness ==
    \E i \in 1..Len(settled) :
        /\ Succeeded(settled[i])
        /\ settled[i].value.backupName # Null
        /\ backups[<<TargetOf(settled[i]), settled[i].value.backupName.ms>>] = Garbage
        /\ fs[TargetOf(settled[i])].kind = "file"
        /\ fs[TargetOf(settled[i])].json.t = "obj"

LocalShape ==
    Obj([type |-> Str("local"),
         command |-> Arr(<<Str("npx"), Str("-y"), Str("@khanglvm/jira-mcp")>>),
         environment |-> Obj([JIRA_BASE_URL |-> Str(form.baseUrl),
                              JIRA_USERNAME |-> Str(form.username),
                              JIRA_PASSWORD |-> Str(form.password)])])

StandardShape ==
    Obj([command |-> Str("npx"),
         args |-> Arr(<<Str("-y"), Str("@khanglvm/jira-mcp")>>),
         env |-> Obj([JIRA_BASE_URL |-> Str(form.baseUrl),
                      JIRA_USERNAME |-> Str(form.username),
                      JIRA_PASSWORD |-> Str(form.password)])])

\* C8: the jira entry a successful install writes is the local-process shape
\* exactly for the clients that need it, by identity or by wrapper key (OpenCode,
\* wrapper key mcp), and the standard shape for every other client.
C8_Original ==
    [][InstallStep /\ Succeeded(Call)
         /\ fs'[TargetOf(Call)].json.t = "obj"
         /\ fs'[TargetOf(Call)].json.m[WrapperKeyOf(Call)].t = "obj" =>
         fs'[TargetOf(Call)].json.m[WrapperKeyOf(Call)].m["jira"] =
             IF ToolIn(Call).id = "opencode" \/ WrapperKeyOf(Call) = "mcp"
             THEN LocalShape
             ELSE StandardShape]_vars

\* C9: a tool whose validation is incompatible with no fallback scope is left
\* out of the installation: the install writes no config file for it.
C9_Original ==
    [][InstallStep /\ Call.status = "fulfilled"
         /\ ~ValidationOf(Call).isCompatible /\ ValidationOf(Call).fallbackScope = Null =>
         /\ fs' = fs
         /\ ~Call.value.success]_vars

(***************************************************************************)
(* Properties of the config fetcher.                                       *)
(***************************************************************************)
\* A fetchMcpConfig call has just been made; Made is its promise.
FetchStep == started' = started + 1
Made == promise'

\* C10: a fetchMcpConfig call without forceRefresh, made while the memory cache
\* holds an entry with now - fetchedAt < ttl, makes no network attempt, reads no
\* file and returns the very object the entry holds, whatever its other options.
C10_MemoryHit ==
    [][FetchStep /\ ~Made.forceRefresh /\ memoryCache # Null
         /\ clock.ms - memoryCache.fetchedAt < memoryCache.ttl =>
         /\ promise'.pc = "returned"
         /\ promise'.result = memoryCache.data
         /\ promise'.attempts = 0
         /\ promise'.fileReads = 0
         /\ calls' = calls
         /\ memoryCache' = memoryCache
         /\ fileCache' = fileCache
         /\ heap' = heap]_vars

\* C10 witness: the last call was served the object of a memory entry that was
\* older than half its ttl, with no attempt and no file read.
C10_Witness ==
    /\ memoryCache # Null
    /\ promise # Null
    /\ promise.source = "memory"
    /\ promise.result = memoryCache.data
    /\ 2 * (promise.at - memoryCache.fetchedAt) >= memoryCache.ttl
    /\ promise.at - memoryCache.fetchedAt < memoryCache.ttl
    /\ promise.attempts = 0
    /\ promise.fileReads = 0

\* The memory cache holds nothing a call could be served from: no entry, or one
\* whose ttl has elapsed.
NoUsableMemory == memoryCache = Null \/ clock.ms - memoryCache.fetchedAt >= memoryCache.ttl

\* C11: a fetchMcpConfig call made with timeout 0 while no usable memory entry
\* exists and a valid file cache is on disk makes no network attempt and returns
\* the file-cached catalog without raising.
C11_Original ==
    [][FetchStep /\ Made.timeout = 0 /\ NoUsableMemory
         /\ readFromFile("none", fileCache) # Null =>
         /\ promise'.pc = "returned"
         /\ promise'.source = "file"
         /\ heap'[promise'.result] = fileCache.entry.data
         /\ promise'.attempts = 0
         /\ calls' = calls]_vars

\* A call in flight has just settled; Resumed is the call as it was before.
ResumeStep == Len(calls') < Len(calls)
Resumed == calls[CHOOSE k \in 1..Len(calls) : calls' = Remove(calls, k)]

\* The network step of call c has yielded no valid catalog: fetchWithRetry threw,
\* or the body it returned does not parse or does not pass the schema.
NetworkFailed(c) ==
    \/ c.pc = "failed"
    \/ c.pc = "fetched" /\ validateConfig(c.response.body).threw

\* The cache file holds an entry readFromFile accepts.
SaneFile == readFromFile("none", fileCache) # Null

RaiseStep == (FetchStep \/ ResumeStep) /\ promise'.pc = "threw"

NoConfiguration == <<"Failed to fetch MCP configuration and no cached data available.">>

\* C13 as stated: a call whose network step fails while no file cache exists
\* raises the 'no configuration available' error, and whenever a call raises the
\* memory cache is empty on return.
C13_Original ==
    [][/\ (ResumeStep /\ NetworkFailed(Resumed) /\ fileCache = Absent) =>
              (promise'.pc = "threw" /\ promise'.error = NoConfiguration)
       /\ RaiseStep => memoryCache' = Null]_vars

\* C13 (amended): a call whose network step fails while no file cache exists
\* raises the 'no configuration available' error; a raising call stores no
\* memory entry and restores none: a call that raises at once leaves the memory
\* cache empty, and a call that raises after its time in flight leaves it as the
\* other calls have left it, which is empty when no other call has been made.
C13_Raise ==
    [][/\ (ResumeStep /\ NetworkFailed(Resumed) /\ fileCache = Absent) =>
              (promise'.pc = "threw" /\ promise'.error = NoConfiguration)
       /\ (RaiseStep /\ FetchStep) => memoryCache' = Null
       /\ (RaiseStep /\ ResumeStep) =>
              /\ memoryCache' = memoryCache
              /\ started = 1 => memoryCache' = Null
              /\ fileCache' = fileCache
              /\ heap' = heap]_vars

\* C13 witness: after a catalog had been served, a call has raised for want of a
\* file cache once its attempts had failed, and the memory cache is empty.
C13_Witness ==
    /\ promise # Null
    /\ promise.pc = "threw"
    /\ promise.error = NoConfiguration
    /\ promise.attempts > 0
    /\ fileCache = Absent
    /\ memoryCache = Null
    /\ Len(heap) > 0

\* The attempt of call k has just ended, or its backoff has.
AttemptEnds(k) ==
    /\ Len(calls') = Len(calls)
    /\ calls[k].pc = "fetching"
    /\ calls'[k] # calls[k]

BackoffEnds(k) ==
    /\ Len(calls') = Len(calls)
    /\ calls[k].pc = "sleeping"
    /\ calls'[k] # calls[k]

\* C14: a fetch makes at most retries attempts; an attempt that ends in a
\* non-2xx response, a network error or a timeout is one failed attempt, every
\* failed attempt but the last is followed by a backoff of 1000 * 2^k ms (k the
\* 0-based index of the attempt) and then by the next attempt, and the failure
\* reaches the file-cache fallback only after the last attempt has failed.
C14_Original ==
    [][\A k \in 1..Len(calls) :
         /\ AttemptEnds(k) =>
              /\ calls[k].attempts <= calls[k].retries
              /\ calls[k].attempts = calls[k].attempt + 1
              /\ calls'[k].pc \in {"fetched", "failed", "sleeping"}
              /\ calls'[k].pc = "failed" => calls[k].attempts = calls[k].retries
              /\ calls'[k].pc = "sleeping" =>
                     /\ calls[k].attempts < calls[k].retries
                     /\ calls'[k].at = clock.ms + 1000 * 2 ^ calls[k].attempt
         /\ BackoffEnds(k) =>
              /\ clock.ms >= calls[k].at
              /\ calls'[k].pc = "fetching"
              /\ calls'[k].attempts = calls[k].attempts + 1]_vars

\* C15: schema validation rejects a catalog unless version and lastUpdated are
\* there as strings, clients has at least one entry, and every client carries
\* configLocations, configFormat with a wrapper key of the enum, scopes and
\* transportSupport of the right types; a call whose response body parses but
\* does not meet this (in particular one whose clients map is empty) does not
\* return that body but turns to the file cache.
C15_Original ==
    [][LET Meets(json) ==
               /\ {"version", "lastUpdated", "clients"} \subseteq DOMAIN json
               /\ DOMAIN json.clients # {}
               /\ \A n \in DOMAIN json.clients :
                    LET c == json.clients[n]
                    IN  /\ {"configLocations", "configFormat", "scopes", "transportSupport"}
                               \subseteq DOMAIN c
                        /\ c.configLocations.t = "obj"
                        /\ c.configFormat.t = "obj"
                        /\ Has(c.configFormat, "wrapperKey")
                        /\ c.configFormat.m["wrapperKey"].t = "str"
                        /\ c.configFormat.m["wrapperKey"].v \in WrapperKeys
                        /\ StringArray(c.scopes)
                        /\ StringArray(c.transportSupport)
       IN  ResumeStep /\ Resumed.pc = "fetched" /\ Resumed.response.body.parses
             /\ ~Meets(Resumed.response.body.json) =>
             /\ validateConfig(Resumed.response.body).threw
             /\ promise'.source # "network"
             /\ promise'.fileReads = 1]_vars

\* clearCache has just run.
ClearStep ==
    /\ started' = started
    /\ calls' = calls
    /\ clock' = clock
    /\ memoryCache' # memoryCache \/ fileCache' # fileCache

Reported == getScopesForClient(request.registry, request.tool.id)

\* C17: a 'user' request is compatible iff the scopes the registry reports for
\* the tool include 'user' or 'global', and a 'project' request iff they include
\* 'project'; 'local' and 'workspace' do not make a tool project-compatible.
C17_Compatible ==
    verdict # Null =>
        /\ verdict.requestedScope = request.requestedScope
        /\ verdict.supportedScopes = Reported
        /\ verdict.isCompatible =
               IF request.requestedScope = "user"
               THEN ("user" \in Reported \/ "global" \in Reported)
               ELSE "project" \in Reported

\* C17 witness: a 'user' request on a tool that declares 'global' and no 'user'
\* was found compatible.
C17_Witness ==
    /\ verdict # Null
    /\ request.requestedScope = "user"
    /\ Reported = {"global", "local", "workspace"}
    /\ verdict.isCompatible

\* C18: fallbackScope is 'user' iff the request was 'project', it is
\* incompatible, and the tool declares 'user' or 'global'; it is null otherwise:
\* for a compatible request, for every incompatible 'user' request, and for a
\* 'project' request on a tool that declares neither.
C18_Fallback ==
    verdict # Null =>
        verdict.fallbackScope =
            IF /\ request.requestedScope = "project"
               /\ ~verdict.isCompatible
               /\ ("user" \in Reported \/ "global" \in Reported)
            THEN Str("user")
            ELSE Null

\* C18 witness: a 'project' request on a tool that declares 'global' only fell
\* back to 'user'.
C18_Witness ==
    /\ verdict # Null
    /\ request.requestedScope = "project"
    /\ Reported = {"global"}
    /\ ~verdict.isCompatible
    /\ verdict.fallbackScope = Str("user")

\* C19: for both requested scopes and every set of supported scopes,
\* warningMessage is non-null exactly when isCompatible is false.
C19_Warning ==
    verdict # Null => ((verdict.warningMessage # Null) <=> ~verdict.isCompatible)

\* C19 witness: an incompatible 'user' request carries a warning.
C19_Witness ==
    /\ verdict # Null
    /\ request.requestedScope = "user"
    /\ Reported = {"project"}
    /\ ~verdict.isCompatible
    /\ verdict.warningMessage # Null

\* C20: a warning names the tool; with a fallback scope it names that scope,
\* without one it names no scope at all; and the scope it names is the scope
\* the install will use.
C20_Original ==
    (verdict # Null /\ verdict.warningMessage # Null) =>
        /\ verdict.warningMessage.tool = request.tool.displayName
        /\ IF verdict.fallbackScope # Null
           THEN verdict.warningMessage.scope = verdict.fallbackScope.v
           ELSE verdict.warningMessage.scope \notin ConfigScopes
        /\ verdict.warningMessage.scope \in ConfigScopes =>
               verdict.warningMessage.scope = ActualScope(verdict, request.requestedScope)

(***************************************************************************)
(* Properties of the tool detector.                                        *)
(***************************************************************************)
\* C21: a detectAll call starts, in one step, exactly one task per catalog
\* client that has locations for the host platform, in the catalog's order,
\* and what it returns holds one result per such client, in that order,
\* whose id is the client's name.
C21_AllClients ==
    [][LET hosts == {i \in 1..Len(DetectorCatalog) :
                        /\ "linux" \in DOMAIN DetectorCatalog[i].config.configLocations
                        /\ DOMAIN DetectorCatalog[i].config.configLocations["linux"] # {}}
           Nth(j) == CHOOSE i \in hosts : Cardinality({x \in hosts : x <= i}) = j
       IN /\ Len(passes') > Len(passes) =>
                LET tasks == passes'[Len(passes')].tasks
                IN /\ Len(tasks) = Cardinality(hosts)
                   /\ \A j \in 1..Len(tasks) :
                          tasks[j].config = DetectorCatalog[Nth(j)].config
          /\ Len(passes') < Len(passes) =>
                /\ Len(found'.results) = Cardinality(hosts)
                /\ \A j \in 1..Len(found'.results) :
                       /\ found'.results[j].id = DetectorCatalog[Nth(j)].config.name
                       /\ found'.results[j].name = DetectorCatalog[Nth(j)].config.name
      ]_vars

\* C21 witness: a detectAll has returned the three clients of this platform,
\* one of them detected and one not.
C21_Witness ==
    /\ found # Null
    /\ Len(found.results) = 3
    /\ found.results[1].id = "claude-code" /\ found.results[1].detected
    /\ found.results[2].id = "Amp" /\ ~found.results[2].detected
    /\ found.results[3].id = "cli-only"

\* Task j of pass k settles in this step by a probe of its own (not from the
\* cache), and the environment has not changed since its detectAll began.
Settles(k, j) ==
    /\ passes'[k].steady
    /\ passes'[k].tasks[j].pc = "done"
    /\ passes'[k].tasks[j].by # "cache"
    /\ \/ Len(passes') > Len(passes) /\ k = Len(passes')
       \/ Len(passes') = Len(passes) /\ passes[k].tasks[j].pc = "probing"

\* C22: when a descriptor lists CLI commands and the first word of one of
\* them is on the search path, the task settles by the command probe with
\* detected = true and configPath the first candidate path, whether or not
\* that path exists; it settles by the path probe only when none is present.
C22_Original ==
    [][\A k \in 1..Len(passes') : \A j \in 1..Len(passes'[k].tasks) :
          Settles(k, j) =>
              LET task == passes'[k].tasks[j]
                  paths == task.result.configPaths
                  present == \E i \in 1..Len(task.config.cli) :
                                 /\ task.config.cli[i].v # <<"">>
                                 /\ Head(task.config.cli[i].v) \in onPath
              IN IF present
                 THEN /\ task.by = "cli"
                      /\ task.result.detected
                      /\ paths # <<>> => task.result.configPath = Str(paths[1])
                 ELSE task.by = "path"
      ]_vars

\* C23: a task that settles by the path probe reports detected exactly when
\* one of its candidate paths, resolved, exists; its configPath is then the
\* resolved form of a candidate that exists and that no existing candidate
\* precedes, and is null when no candidate exists.
C23_PathProbe ==
    [][\A k \in 1..Len(passes') : \A j \in 1..Len(passes'[k].tasks) :
          (Settles(k, j) /\ passes'[k].tasks[j].by = "path") =>
              LET r == passes'[k].tasks[j].result
                  paths == r.configPaths
                  There(i) == Exists(fs, resolvePlatformPath(paths[i]))
              IN /\ r.detected <=> \E i \in 1..Len(paths) : There(i)
                 /\ IF \E i \in 1..Len(paths) : There(i)
                    THEN \E i \in 1..Len(paths) :
                            /\ There(i)
                            /\ \A h \in 1..(i - 1) : ~There(h)
                            /\ r.configPath = Str(resolvePlatformPath(paths[i]))
                    ELSE r.configPath = Null
      ]_vars

\* C23 witness: the command of claude-code was not found and of its two
\* candidates only the home one, declared as ~/a.json, exists.
C23_Witness ==
    \E k \in 1..Len(passes) :
        /\ passes[k].steady
        /\ passes[k].tasks[1].by = "path"
        /\ passes[k].tasks[1].result.configPaths = <<"~/a.json", "/w/b.json">>
        /\ passes[k].tasks[1].result.configPath = Str(HomeFile)
        /\ fs[HomeFile] # Absent /\ fs[WorkFile] = Absent

AllDetections ==
    {detectorCache[n] : n \in DOMAIN detectorCache}
    \cup UNION {{passes[k].tasks[j].result : j \in 1..Len(passes[k].tasks)} \ {Null} :
                k \in 1..Len(passes)}
    \cup (IF found = Null THEN {} ELSE {found.results[j] : j \in 1..Len(found.results)})

\* C25: a DetectionResult with detected = true has a configPath that is a
\* non-empty string, and one with detected = false has configPath = null.
C25_Original ==
    \A r \in AllDetections :
        IF r.detected
        THEN r.configPath # Null /\ r.configPath.v # ""
        ELSE r.configPath = Null

\* C26: every result r a detectAll returns names a client of the registry the
\* detector was built on: the registry's config paths for r.id are
\* r.configPaths, its client for r.id is r.config, and its scopes for r.id
\* are the scopes r.config declares.
C26_Original ==
    found # Null =>
        \A j \in 1..Len(found.results) :
            LET r == found.results[j]
                registry == createRegistryFromConfig(DetectorCatalog)
            IN /\ getConfigPaths(registry, r.id, process_platform) = r.configPaths
               /\ getClient(registry, r.id) = r.config
               /\ getScopesForClient(registry, r.id) = r.config.scopes

(***************************************************************************)
(* Properties of the setup command.                                        *)
(***************************************************************************)
\* C27: what parseSetupArgs returns is null or has a supported cli, a
\* non-empty baseUrl, username and password, and a scope that is 'user' or
\* 'project', 'user' when the arguments hold no scope flag.
C27_Original ==
    (setup # Null /\ setup.pc = "parsed" /\ setup.options # Null) =>
        /\ setup.options.cli # Null
        /\ setup.options.cli.v \in {"claude-code", "claude-desktop", "github-copilot",
                                      "cursor", "windsurf", "roo-code", "zed", "factory-droid",
                                      "antigravity", "gemini-cli", "opencode", "vscode-copilot",
                                      "jetbrains-copilot", "codex-cli"}
        /\ \A k \in {"baseUrl", "username", "password"} :
               setup.options[k] # Null /\ setup.options[k].v # ""
        /\ setup.options.scope \in {Str("user"), Str("project")}
        /\ (\A i \in 1..Len(setup.args) : setup.args[i] \notin {"-s", "--scope"})
               => setup.options.scope = Str("user")

C29_LastWriter ==
    [][LET Agree(mem, file, hp) ==
               (mem # Null /\ file # Absent) =>
                   (file.kind = "file" /\ hp[mem.data] = file.entry.data)
       IN /\ ( /\ ResumeStep
               /\ promise'.pc = "returned"
               /\ promise'.source = "network"
               /\ promise'.fault # "write" )
             => /\ memoryCache' # Null
                /\ memoryCache'.data = promise'.result
                /\ fileCache' # Absent
                /\ fileCache'.entry.data = heap'[promise'.result]
                /\ fileCache'.entry.fetchedAt = memoryCache'.fetchedAt
          /\ ( /\ Agree(memoryCache, fileCache, heap)
               /\ ~ClearStep
               /\ ~(ResumeStep /\ promise'.fault = "write") )
             => Agree(memoryCache', fileCache', heap')
      ]_vars

\* C29 witness: two calls have delivered different catalogs, the second one
\* from the network, and both caches hold the second.
C29_Witness ==
    /\ started = 2
    /\ calls = <<>>
    /\ Len(heap) = 2
    /\ heap[1] # heap[2]
    /\ promise.pc = "returned"
    /\ promise.source = "network"
    /\ memoryCache # Null
    /\ memoryCache.data = 2
    /\ fileCache # Absent
    /\ fileCache.entry.data = heap[2]

\* C30: after a clearCache that has emptied both caches, both stay empty
\* until a fetchMcpConfig call that began after it settles; in particular
\* the calls it has overtaken leave them empty when they settle.
C30_Original ==
    [][( /\ stale > 0
         /\ ~(FetchStep /\ promise'.pc # "pending")
         /\ ~(ResumeStep /\ \E k \in 1..Len(calls) : k > stale /\ calls' = Remove(calls, k)) )
       => (memoryCache' = Null /\ fileCache' = Absent)
      ]_vars

(***************************************************************************)
(* Properties of the config fetcher after a fallback to the cache file.    *)
(***************************************************************************)
\* The memory entry holds the catalog of a cache file that is older than the
\* entry, as the fallback of line 280 leaves it.
FromFile ==
    /\ memoryCache # Null
    /\ fileCache # Absent
    /\ heap[memoryCache.data] = fileCache.entry.data
    /\ memoryCache.fetchedAt > fileCache.entry.fetchedAt

\* C31: a fetchMcpConfig call that falls back to the cache file leaves a
\* memory entry stamped with the time of the fallback, whatever the file
\* entry's fetchedAt; while that entry is younger than its ttl a call
\* without forceRefresh returns its catalog with no network attempt and no
\* file read, however old the file entry is; once the ttl has elapsed, or
\* with forceRefresh, a call whose remote fetch is not disabled goes to the
\* network again.
C31_FallbackStamp ==
    [][/\ (ResumeStep /\ promise'.source = "file") =>
            /\ memoryCache' = CacheEntry(promise'.result, Null, clock.ms)
            /\ heap'[promise'.result] = fileCache.entry.data
            /\ fileCache' = fileCache
       /\ (FetchStep /\ FromFile /\ ~Made.forceRefresh
             /\ clock.ms - memoryCache.fetchedAt < CACHE_TTL) =>
            /\ promise'.pc = "returned"
            /\ promise'.source = "memory"
            /\ promise'.result = memoryCache.data
            /\ promise'.attempts = 0
            /\ promise'.fileReads = 0
            /\ calls' = calls
            /\ memoryCache' = memoryCache
       /\ (FetchStep /\ FromFile /\ Made.timeout # 0
             /\ (Made.forceRefresh \/ clock.ms - memoryCache.fetchedAt >= CACHE_TTL)) =>
            /\ promise'.pc = "pending"
            /\ Len(calls') = Len(calls) + 1
            /\ memoryCache' = Null
      ]_vars

\* C31 witness: a call has been served from a memory entry that a fallback
\* made, some time after the fallback and within the entry's ttl, while the
\* cache file's entry was older than a whole ttl.
C31_Witness ==
    /\ FromFile
    /\ memoryCache.etag = Null
    /\ promise # Null
    /\ promise.pc = "returned"
    /\ promise.source = "memory"
    /\ promise.result = memoryCache.data
    /\ promise.at > memoryCache.fetchedAt
    /\ promise.at - memoryCache.fetchedAt < CACHE_TTL
    /\ promise.at - fileCache.entry.fetchedAt >= CACHE_TTL
    /\ promise.attempts = 0

(***************************************************************************)
(* Properties of the installs of one batch on a shared file.               *)
(***************************************************************************)
\* The file at path p holds the jira entry of settled install e under e's
\* wrapper key.
HoldsEntryOf(e, file) ==
    /\ file.kind = "file"
    /\ file.json.t = "obj"
    /\ Has(file.json, WrapperKeyOf(e))
    /\ file.json.m[WrapperKeyOf(e)].t = "obj"
    /\ Has(file.json.m[WrapperKeyOf(e)], "jira")
    /\ file.json.m[WrapperKeyOf(e)].m["jira"] = ServerEntryFor(ToolIn(e), form)

\* C32: the installs of a batch touch the filesystem one whole install at a
\* time, in input order; and a successful install into a file that holds the
\* jira entry of an earlier successful install of the batch under another
\* wrapper key, its own wrapper key being unset or holding an object, leaves
\* the file holding both entries.
C32_Original ==
    [][/\ (fs' # fs \/ backups' # backups \/ dirs' # dirs) =>
            /\ InstallStep
            /\ settled' = Append(settled, Call)
       /\ (InstallStep /\ Succeeded(Call)) =>
            \A i \in 1..Len(settled) :
                ( /\ Succeeded(settled[i])
                  /\ TargetOf(settled[i]) = TargetOf(Call)
                  /\ WrapperKeyOf(settled[i]) # WrapperKeyOf(Call)
                  /\ HoldsEntryOf(settled[i], fs[TargetOf(Call)])
                  /\ Has(fs[TargetOf(Call)].json, WrapperKeyOf(Call)) =>
                         fs[TargetOf(Call)].json.m[WrapperKeyOf(Call)].t = "obj" )
                => /\ HoldsEntryOf(settled[i], fs'[TargetOf(Call)])
                   /\ HoldsEntryOf(Call, fs'[TargetOf(Call)])
      ]_vars

\* C33: a backup file an install has created is not modified, overwritten
\* or deleted by any later step, whatever the target and the clock
\* millisecond of a later install.
C33_Original ==
    [][\A b \in BackupSlots : backups[b] # Absent => backups'[b] = backups[b]]_vars

\* C34: an install that succeeds right after a successful install of the same
\* tool in the same batch (same scope, same credentials) leaves the target
\* file with exactly the content the first one left, and its only effect is
\* one more backup, holding that content.
C34_Original ==
    [][( /\ InstallStep
         /\ Succeeded(Call)
         /\ Len(settled) > 0
         /\ Succeeded(settled[Len(settled)])
         /\ settled[Len(settled)].tool = Call.tool )
       => /\ fs' = fs
          /\ dirs' = dirs
          /\ \E b \in BackupSlots :
                /\ backups[b] = Absent
                /\ backups' = [backups EXCEPT ![b] = fs[TargetOf(Call)]]
      ]_vars

(***************************************************************************)
(* The setup command's injector against the batch installer.               *)
(***************************************************************************)
\* C35: when injectMcpConfig writes a client's file for a scope, installTool
\* for the same client, scope and credentials on the same filesystem, if it
\* succeeds too, writes the same file with the same content: the same jira
\* entry under the same wrapper key.
C35_Original ==
    [][( /\ setup # Null
         /\ setup.pc # "done"
         /\ setup'.pc = "done"
         /\ setup'.registryCache # Null
         /\ setup'.result.success )
       => LET options == setup'.options
              registry == setup'.registryCache
              e == installTool([tool |-> DetectionResult(getClient(registry, options.cli.v)),
                                scope |-> options.scope.v,
                                credentials |-> [baseUrl |-> options.baseUrl.v,
                                                 username |-> options.username.v,
                                                 password |-> options.password.v],
                                registry |-> registry],
                               "none", now, fs, backups, dirs)
          IN  Succeeded(e.outcome) => e.fs = fs'
      ]_vars

(***************************************************************************)
(* Properties of the installer's terminal UI.                              *)
(***************************************************************************)
\* What installTool targets for every tool of selectedTools at the selected
\* scope, with the credentials of the form.
SelectedInstalls(t) ==
    LET chosen == selectedToolsArray(t)
        options == [i \in 1..Len(chosen) |->
                       [tool |-> chosen[i], scope |-> t.selectedScope,
                        credentials |-> t.form, registry |-> t.registry]]
        b == batchInstall(options, now, fs, backups, dirs)
    IN  {[id |-> chosen[i].id, credentials |-> t.form,
          path |-> IF b.settled[i].status = "fulfilled"
                   THEN b.settled[i].value.configPath ELSE Null] : i \in 1..Len(chosen)}

\* Y has been pressed in the confirm view with a selection.
PressedY ==
    /\ tui.view = "confirm"
    /\ tui.selectedTools # {}
    /\ tui'.view \notin {"confirm", "credentials"}

\* C36: pressing Y in the confirm view with a non-empty selection attempts an
\* install for exactly the tools of selectedTools at the selected scope and
\* leaves the view on its way to results, success or error, with one tool
\* selected as with several.
C36_Original ==
    [][PressedY =>
          /\ tui'.attempted = SelectedInstalls(tui)
          /\ tui'.view \in {"installing", "results", "success", "error"}]_vars

C36_Several ==
    [][(PressedY /\ Cardinality(tui.selectedTools) > 1) =>
          /\ tui'.attempted = SelectedInstalls(tui)
          /\ tui'.view \in {"installing", "results", "success", "error"}]_vars

\* What the scope-select view shows of a list of validation results: for each
\* tool the scope it was validated for, whether that scope is supported, the
\* fallback and whether there is a warning.
Shown(results) ==
    [i \in DOMAIN results |->
        [toolId |-> results[i].toolId,
         requestedScope |-> results[i].requestedScope,
         isCompatible |-> results[i].isCompatible,
         fallbackScope |-> results[i].fallbackScope,
         warned |-> results[i].warningMessage # Null]]

\* C37: in the scope-select view validationResults is validateBatchScopes of
\* the selected tools at the selected scope, also after Space has toggled the
\* scope.
C37_Original ==
    tui # Null /\ tui.view = "scope-select" =>
        Shown(tui.validationResults) =
            Shown(validateBatchScopes(selectedToolsArray(tui), tui.selectedScope, tui.registry))

\* Credentials the confirm view may be shown for: the three fields filled in
\* and a base URL that starts with http:// or https://.
UsableCredentials(f) ==
    /\ Len(f.baseUrl) > 0 /\ Len(f.username) > 0 /\ Len(f.password) > 0
    /\ \E scheme \in {HttpUrl, HttpsUrl} :
          /\ Len(f.baseUrl) >= Len(scheme)
          /\ \A i \in 1..Len(scheme) : f.baseUrl[i] = scheme[i]

\* C38: the confirm view is shown only while baseUrl, username and password
\* are non-empty and baseUrl starts with http:// or https://, and no install,
\* by batchInstall or by injectConfig, is started with other credentials.
C38_ConfirmedCredentials ==
    tui # Null =>
        /\ tui.view = "confirm" => UsableCredentials(tui.form)
        /\ \A a \in tui.attempted : UsableCredentials(a.credentials)

\* An install has been started from the confirm view, here with an https URL.
C38_Witness ==
    /\ tui # Null
    /\ tui.view \in {"installing", "success"}
    /\ tui.attempted # {}
    /\ \E a \in tui.attempted : a.credentials.baseUrl = HttpsUrl

(***************************************************************************)
(* Properties of the Jira client.                                          *)
(***************************************************************************)
\* C39: request returns a value only for a 2xx response; every other
\* response, an empty body or a content-length of 0 included, raises a
\* JiraApiError that carries the status code and the body.
C39_Original ==
    (http # Null /\ http.pc = "settled" /\ http.response # Null) =>
        IF http.response.status \in 200..299
        THEN http.outcome.kind = "returned"
        ELSE /\ http.outcome.kind = "raised"
             /\ http.outcome.error.name = "JiraApiError"
             /\ http.outcome.error.statusCode = http.response.status
             /\ http.outcome.error.body = parsedBody(http.response.body)

====
